---- MODULE Spec2Model ----
(***************************************************************************)
(* Tool-orchestrated turn engine of the horror narrative game server:      *)
(* the tool executor (backend/src/tools/toolExecutor.ts), the orchestrator *)
(* loop (services/orchestratorService.ts, latest revision) and the HTTP    *)
(* controller (controllers/gameController.ts) over the in-memory session   *)
(* store (services/gameService.ts).                                        *)
(*                                                                         *)
(* Strings are TLA+ strings; trimming and lower-casing are given by their  *)
(* graphs on the strings the model uses.  An optional value (undefined or  *)
(* null in the source) is a sequence of length 0 or 1.                     *)
(***************************************************************************)
EXTENDS Integers, Sequences, FiniteSets, TLC

VARIABLES
    backend,    \* which model backend config selects: "vertex", "google", "none"
    sessions,   \* every GameState object created so far, by session id
    store,      \* keys of the sessions Map (ids that getSession finds)
    nextSession,\* number of session ids handed out by uuidv4 in createSession
    nextItem,   \* number of item ids handed out by uuidv4 in inventory add
    req,        \* per session id: the /action request in flight, or idle
    nReq,       \* number of HTTP requests received so far
    nCalls,     \* number of tool invocations executed so far
    lastReq,    \* the HTTP request received last
    lastResp,   \* the HTTP response sent last
    apiKeys,    \* config.apiKeys, the keys resolveApiKeys read from the environment
    pool,       \* the key pool's entries {key, cooldownUntil, dead}, in order
    cursor,     \* the key pool's round-robin cursor, an index from 0
    now,        \* Date.now(), in milliseconds since the server started
    retry,      \* the withRetry invocation under way, or the way the last one ended
    contextCacheEnabled,        \* config.contextCacheEnabled
    orchestratorCacheByKey,     \* per API key: the cache entry stored, if any
    orchestratorCacheInFlight,  \* per API key: the promise of the creation under way, if any
    cacheDisabledForKey,        \* the API keys whose cache creation failed
    creations,  \* the promises of cache creation made so far, in order
    callers     \* per caller of getOrchestratorCachedContent: where it stands

\* The module-level state of the orchestrator's context cache, with the calls
\* of getOrchestratorCachedContent under way; that of utils/keyPool.ts, the
\* clock both read, and a call of utils/retry.ts
cacheVars == <<contextCacheEnabled, orchestratorCacheByKey, orchestratorCacheInFlight,
               cacheDisabledForKey, creations, callers>>

modules == <<apiKeys, pool, cursor, now, retry, cacheVars>>

vars == <<backend, sessions, store, nextSession, nextItem, req, nReq, nCalls, lastReq, lastResp,
          modules>>

----------------------------------------------------------------------------
(* Bounds of the model. *)

\* session ids createSession may hand out
MaxSessions == 2
\* HTTP requests the clients send
MaxRequests == 3
\* tool calls the model requests in all, where the model is free in its calls
MaxToolCalls == 2
\* tool calls the model requests in all, in the tool executor's specification
MaxToolSteps == 4
\* milliseconds the clock runs, where time passes
MaxClock == 70000
\* concurrent callers of the context cache
MaxCallers == 2
\* cache creations the callers start in all
MaxCreations == 3

----------------------------------------------------------------------------
(* Strings. *)

Padding ==
    (" bleeding " :> "bleeding") @@ ("  " :> "") @@ (" Key" :> "Key")
    @@ (" capsule " :> "capsule") @@ (" Force " :> "Force")

Trim(s) == IF s \in DOMAIN Padding THEN Padding[s] ELSE s

Lowering ==
    ("Key" :> "key") @@ ("KEY" :> "key") @@ ("Lamp" :> "lamp")

ToLowerCase(s) == IF s \in DOMAIN Lowering THEN Lowering[s] ELSE s

Has(args, f) == f \in DOMAIN args

Min(a, b) == IF a < b THEN a ELSE b

Max(a, b) == IF a > b THEN a ELSE b

\* clamp without its upper limit
NoUpperClamp(value, min, max) == Max(min, value)

clamp(value, min, max) == Max(min, Min(max, value))

\* typeof value !== "string" || !value.trim()
validateNonEmptyString(args, f) == Has(args, f) /\ Trim(args[f]) # ""

IndexOf(seq, x) ==
    IF \E i \in 1..Len(seq) : seq[i] = x
    THEN CHOOSE i \in 1..Len(seq) : seq[i] = x /\ \A j \in 1..(i - 1) : seq[j] # x
    ELSE 0

Includes(seq, x) == \E i \in 1..Len(seq) : seq[i] = x

\* Array.prototype.splice(index, 1)
Splice1(seq, i) == SubSeq(seq, 1, i - 1) \o SubSeq(seq, i + 1, Len(seq))

----------------------------------------------------------------------------
(* Tool executor.  Each operation takes the execution context, the game    *)
(* state the context points to, and the arguments, and yields the new      *)
(* context, the new state and the ToolResult.                              *)

Out(cx, st, ok, msg) == [ctx |-> cx, state |-> st, result |-> [success |-> ok, message |-> msg]]

createExecutionContext ==
    [toolCalls |-> <<>>, imagePrompt |-> <<>>,
     gameOverTriggered |-> FALSE, gameOverDescription |-> <<>>]

AddNum(args, f, v) == IF Has(args, f) THEN v + args[f] ELSE v

\* update_player_stats as it would be if it recomputed isGameOver from the stats
UpdateStatsRevives(cx, st, args) ==
    LET s == st.stats
        hp2 == IF Has(args, "hp") THEN clamp(s.hp + args.hp, 0, 100) ELSE s.hp
        sanity2 == IF Has(args, "sanity") THEN clamp(s.sanity + args.sanity, 0, 100)
                   ELSE s.sanity
    IN  Out(cx, [st EXCEPT !.stats = [hp |-> hp2, sanity |-> sanity2,
                                      strength |-> AddNum(args, "strength", s.strength),
                                      intelligence |-> AddNum(args, "intelligence", s.intelligence),
                                      dexterity |-> AddNum(args, "dexterity", s.dexterity)],
                           !.isGameOver = (hp2 <= 0 \/ sanity2 <= 0)],
            TRUE, "Stats updated")

\* update_player_stats as it would be if a delta replaced the attribute
UpdateStatsAssigns(cx, st, args) ==
    LET s == st.stats
        put(f) == IF Has(args, f) THEN args[f] ELSE s[f]
    IN  Out(cx, [st EXCEPT !.stats = [hp |-> clamp(put("hp"), 0, 100),
                                      sanity |-> clamp(put("sanity"), 0, 100),
                                      strength |-> put("strength"),
                                      intelligence |-> put("intelligence"),
                                      dexterity |-> put("dexterity")]],
            TRUE, "Stats updated")

executeUpdatePlayerStats(cx, st, args) ==
    LET s == st.stats
        stats2 == [hp           |-> IF Has(args, "hp")
                                    THEN clamp(s.hp + args.hp, 0, 100) ELSE s.hp,
                   sanity       |-> IF Has(args, "sanity")
                                    THEN clamp(s.sanity + args.sanity, 0, 100) ELSE s.sanity,
                   strength     |-> AddNum(args, "strength", s.strength),
                   intelligence |-> AddNum(args, "intelligence", s.intelligence),
                   dexterity    |-> AddNum(args, "dexterity", s.dexterity)]
    IN  Out(cx, [st EXCEPT !.stats = stats2], TRUE, "Stats updated")

\* The index remove would take if it removed the last item of that name
FindLastIndexByName(inv, name) ==
    IF \E i \in 1..Len(inv) : ToLowerCase(inv[i].name) = ToLowerCase(name)
    THEN CHOOSE i \in 1..Len(inv) :
            /\ ToLowerCase(inv[i].name) = ToLowerCase(name)
            /\ \A j \in (i + 1)..Len(inv) : ToLowerCase(inv[j].name) # ToLowerCase(name)
    ELSE 0

FindIndexByName(inv, name) ==
    IF \E i \in 1..Len(inv) : ToLowerCase(inv[i].name) = ToLowerCase(name)
    THEN CHOOSE i \in 1..Len(inv) :
            /\ ToLowerCase(inv[i].name) = ToLowerCase(name)
            /\ \A j \in 1..(i - 1) : ToLowerCase(inv[j].name) # ToLowerCase(name)
    ELSE 0

executeInventoryAction(cx, st, args, uuid) ==
    IF ~validateNonEmptyString(args, "action")
    THEN Out(cx, st, FALSE, "Invalid or missing 'action'")
    ELSE IF ~validateNonEmptyString(args, "itemName")
    THEN Out(cx, st, FALSE, "Invalid or missing 'itemName'")
    ELSE LET action == ToLowerCase(Trim(args.action))
             itemName == Trim(args.itemName)
         IN  IF action = "add"
             THEN LET newItem == [id |-> uuid, name |-> itemName,
                                  desc |-> IF Has(args, "itemDescription")
                                           THEN args.itemDescription ELSE ""]
                  IN  Out(cx, [st EXCEPT !.inventory = Append(@, newItem)],
                          TRUE, "Item added")
             ELSE IF action = "remove"
             THEN LET index == FindIndexByName(st.inventory, itemName)
                  IN  IF index = 0
                      THEN Out(cx, st, FALSE, "Item not found")
                      ELSE Out(cx, [st EXCEPT !.inventory = Splice1(@, index)],
                               TRUE, "Item removed")
             ELSE Out(cx, st, FALSE, "Unknown inventory action")

\* add_tag as it would be without the includes test
AddTagNoCheck(cx, st, args) ==
    IF ~validateNonEmptyString(args, "tag")
    THEN Out(cx, st, FALSE, "Invalid or missing 'tag'")
    ELSE Out(cx, [st EXCEPT !.tags = Append(@, Trim(args.tag))], TRUE, "Tag added")

executeAddTag(cx, st, args) ==
    IF ~validateNonEmptyString(args, "tag")
    THEN Out(cx, st, FALSE, "Invalid or missing 'tag'")
    ELSE LET tag == Trim(args.tag)
         IN  IF Includes(st.tags, tag)
             THEN Out(cx, st, TRUE, "Tag already exists")
             ELSE Out(cx, [st EXCEPT !.tags = Append(@, tag)], TRUE, "Tag added")

\* remove_tag as it would be if an absent tag were no error
RemoveTagLenient(cx, st, args) ==
    IF ~validateNonEmptyString(args, "tag")
    THEN Out(cx, st, FALSE, "Invalid or missing 'tag'")
    ELSE LET index == IndexOf(st.tags, Trim(args.tag))
         IN  IF index = 0
             THEN Out(cx, [st EXCEPT !.tags = SubSeq(@, 1, Len(@) - 1)],
                      TRUE, "Tag removed")
             ELSE Out(cx, [st EXCEPT !.tags = Splice1(@, index)], TRUE, "Tag removed")

executeRemoveTag(cx, st, args) ==
    IF ~validateNonEmptyString(args, "tag")
    THEN Out(cx, st, FALSE, "Invalid or missing 'tag'")
    ELSE LET index == IndexOf(st.tags, Trim(args.tag))
         IN  IF index = 0
             THEN Out(cx, st, FALSE, "Tag not found")
             ELSE Out(cx, [st EXCEPT !.tags = Splice1(@, index)], TRUE, "Tag removed")

\* trigger_game_over as it would be if the first ending of a turn stood
TriggerKeepsFirstEnding(cx, st, args) ==
    IF ~validateNonEmptyString(args, "endingType")
    THEN Out(cx, st, FALSE, "Invalid or missing 'endingType'")
    ELSE IF ~validateNonEmptyString(args, "deathDescription")
    THEN Out(cx, st, FALSE, "Invalid or missing 'deathDescription'")
    ELSE Out([cx EXCEPT !.gameOverTriggered = TRUE,
                        !.gameOverDescription =
                            IF cx.gameOverTriggered THEN @
                            ELSE <<Trim(args.deathDescription)>>],
             [st EXCEPT !.isGameOver = TRUE],
             TRUE, "GAME OVER triggered")

executeTriggerGameOver(cx, st, args) ==
    IF ~validateNonEmptyString(args, "endingType")
    THEN Out(cx, st, FALSE, "Invalid or missing 'endingType'")
    ELSE IF ~validateNonEmptyString(args, "deathDescription")
    THEN Out(cx, st, FALSE, "Invalid or missing 'deathDescription'")
    ELSE Out([cx EXCEPT !.gameOverTriggered = TRUE,
                        !.gameOverDescription = <<Trim(args.deathDescription)>>],
             [st EXCEPT !.isGameOver = TRUE],
             TRUE, "GAME OVER triggered")

\* materials: the entries of args.materials that are non-blank strings
FilterMaterials(args) ==
    IF Has(args, "materials")
    THEN SelectSeq(args.materials, LAMBDA m : Trim(m) # "")
    ELSE <<>>

SharesMaterial(prev, materials) ==
    \E i \in 1..Len(prev) : Includes(materials, prev[i])

\* generate_scene_image as it would be if it compared with the environment
\* after overwriting it
SceneAfterOverwrite(cx, st, args) ==
    IF \/ ~validateNonEmptyString(args, "location")
       \/ Len(FilterMaterials(args)) = 0
       \/ ~validateNonEmptyString(args, "lighting")
       \/ ~validateNonEmptyString(args, "atmosphere")
       \/ ~validateNonEmptyString(args, "visualDescription")
    THEN Out(cx, st, FALSE, "Invalid or missing parameter")
    ELSE
    LET location == Trim(args.location)
        env == [location |-> location, materials |-> FilterMaterials(args),
                lighting |-> Trim(args.lighting), atmosphere |-> Trim(args.atmosphere)]
        prompt == [prefix |-> "Continuing in", from |-> <<>>,
                   location |-> location, env |-> env,
                   visualDescription |-> Trim(args.visualDescription),
                   style |-> IF Has(args, "style") /\ args.style # "" THEN args.style
                             ELSE "horror"]
    IN  Out([cx EXCEPT !.imagePrompt = <<prompt>>],
            [st EXCEPT !.environment = <<env>>,
                       !.currentLocation = <<location>>,
                       !.locationHistory = IF Includes(@, location) THEN @
                                           ELSE Append(@, location)],
            TRUE, "Scene image queued")

\* generate_scene_image as it would be if the first prompt of a turn were kept
ScenePromptFirstWins(cx, st, args) ==
    LET materials == FilterMaterials(args)
    IN
    IF \/ ~validateNonEmptyString(args, "location")
       \/ Len(materials) = 0
       \/ ~validateNonEmptyString(args, "lighting")
       \/ ~validateNonEmptyString(args, "atmosphere")
       \/ ~validateNonEmptyString(args, "visualDescription")
    THEN Out(cx, st, FALSE, "Invalid or missing parameter")
    ELSE
    LET location == Trim(args.location)
        env == [location |-> location, materials |-> materials,
                lighting |-> Trim(args.lighting), atmosphere |-> Trim(args.atmosphere)]
        prompt == [prefix |-> "Starting location", from |-> <<>>,
                   location |-> location, env |-> env,
                   visualDescription |-> Trim(args.visualDescription), style |-> "horror"]
    IN  Out([cx EXCEPT !.imagePrompt = IF @ = <<>> THEN <<prompt>> ELSE @],
            [st EXCEPT !.environment = <<env>>,
                       !.currentLocation = <<location>>,
                       !.locationHistory = IF Includes(@, location) THEN @
                                           ELSE Append(@, location)],
            TRUE, "Scene image queued")

\* generate_scene_image as it would be if every scene were pushed onto
\* locationHistory
SceneAlwaysPushes(cx, st, args) ==
    LET style == IF Has(args, "style") /\ args.style # "" THEN args.style ELSE "horror"
        materials == FilterMaterials(args)
    IN
    IF ~validateNonEmptyString(args, "location")
    THEN Out(cx, st, FALSE, "Invalid or missing 'location'")
    ELSE IF Len(materials) = 0
    THEN Out(cx, st, FALSE, "Invalid or missing 'materials'")
    ELSE IF ~validateNonEmptyString(args, "lighting")
    THEN Out(cx, st, FALSE, "Invalid or missing 'lighting'")
    ELSE IF ~validateNonEmptyString(args, "atmosphere")
    THEN Out(cx, st, FALSE, "Invalid or missing 'atmosphere'")
    ELSE IF ~validateNonEmptyString(args, "visualDescription")
    THEN Out(cx, st, FALSE, "Invalid or missing 'visualDescription'")
    ELSE
    LET location == Trim(args.location)
        previousEnvironment == st.environment
        previousLocation == st.currentLocation
        env == [location |-> location, materials |-> materials,
                lighting |-> Trim(args.lighting), atmosphere |-> Trim(args.atmosphere)]
        prefix ==
            IF previousEnvironment # <<>> /\ previousLocation = <<location>>
            THEN IF SharesMaterial(previousEnvironment[1].materials, materials)
                 THEN "Continuing in"
                 ELSE "Still in"
            ELSE IF previousLocation # <<>> /\ previousLocation # <<location>>
            THEN "Transitioning from"
            ELSE "Starting location"
        prompt == [prefix |-> prefix,
                   from |-> IF prefix = "Transitioning from" THEN previousLocation ELSE <<>>,
                   location |-> location, env |-> env,
                   visualDescription |-> Trim(args.visualDescription), style |-> style]
    IN  Out([cx EXCEPT !.imagePrompt = <<prompt>>],
            [st EXCEPT !.environment = <<env>>,
                       !.currentLocation = <<location>>,
                       !.locationHistory = Append(@, location)],
            TRUE, "Scene image queued")

executeGenerateSceneImage(cx, st, args) ==
    LET style == IF Has(args, "style") /\ args.style # "" THEN args.style ELSE "horror"
        materials == FilterMaterials(args)
    IN
    IF ~validateNonEmptyString(args, "location")
    THEN Out(cx, st, FALSE, "Invalid or missing 'location'")
    ELSE IF Len(materials) = 0
    THEN Out(cx, st, FALSE, "Invalid or missing 'materials'")
    ELSE IF ~validateNonEmptyString(args, "lighting")
    THEN Out(cx, st, FALSE, "Invalid or missing 'lighting'")
    ELSE IF ~validateNonEmptyString(args, "atmosphere")
    THEN Out(cx, st, FALSE, "Invalid or missing 'atmosphere'")
    ELSE IF ~validateNonEmptyString(args, "visualDescription")
    THEN Out(cx, st, FALSE, "Invalid or missing 'visualDescription'")
    ELSE
    LET location == Trim(args.location)
        previousEnvironment == st.environment
        previousLocation == st.currentLocation
        env == [location |-> location, materials |-> materials,
                lighting |-> Trim(args.lighting), atmosphere |-> Trim(args.atmosphere)]
        prefix ==
            IF previousEnvironment # <<>> /\ previousLocation = <<location>>
            THEN IF SharesMaterial(previousEnvironment[1].materials, materials)
                 THEN "Continuing in"
                 ELSE "Still in"
            ELSE IF previousLocation # <<>> /\ previousLocation # <<location>>
            THEN "Transitioning from"
            ELSE "Starting location"
        prompt == [prefix |-> prefix,
                   from |-> IF prefix = "Transitioning from" THEN previousLocation ELSE <<>>,
                   location |-> location, env |-> env,
                   visualDescription |-> Trim(args.visualDescription), style |-> style]
    IN  Out([cx EXCEPT !.imagePrompt = <<prompt>>],
            [st EXCEPT !.environment = <<env>>,
                       !.currentLocation = <<location>>,
                       !.locationHistory = IF Includes(@, location) THEN @
                                           ELSE Append(@, location)],
            TRUE, "Scene image queued")

\* executeTool as it would be if it logged the calls that succeed only
LogSuccessOnly(cx, st, toolName, args, uuid) ==
    LET r == CASE toolName = "update_player_stats" -> executeUpdatePlayerStats(cx, st, args)
               [] toolName = "inventory_action" -> executeInventoryAction(cx, st, args, uuid)
               [] toolName = "add_tag" -> executeAddTag(cx, st, args)
               [] toolName = "remove_tag" -> executeRemoveTag(cx, st, args)
               [] toolName = "trigger_game_over" -> executeTriggerGameOver(cx, st, args)
               [] toolName = "generate_scene_image" -> executeGenerateSceneImage(cx, st, args)
               [] OTHER -> Out(cx, st, FALSE, "Unknown tool")
    IN  IF r.result.success
        THEN [r EXCEPT !.ctx.toolCalls =
                Append(@, [toolName |-> toolName, args |-> args, result |-> r.result])]
        ELSE r

\* executeTool: dispatch on the tool name, then log the call whatever its outcome.
\* (The log entry's timestamp, Date.now(), is left out.)
executeTool(cx, st, toolName, args, uuid) ==
    LET r == CASE toolName = "update_player_stats" -> executeUpdatePlayerStats(cx, st, args)
               [] toolName = "inventory_action" -> executeInventoryAction(cx, st, args, uuid)
               [] toolName = "add_tag" -> executeAddTag(cx, st, args)
               [] toolName = "remove_tag" -> executeRemoveTag(cx, st, args)
               [] toolName = "trigger_game_over" -> executeTriggerGameOver(cx, st, args)
               [] toolName = "generate_scene_image" -> executeGenerateSceneImage(cx, st, args)
               [] OTHER -> Out(cx, st, FALSE, "Unknown tool")
    IN  [r EXCEPT !.ctx.toolCalls =
            Append(@, [toolName |-> toolName, args |-> args, result |-> r.result])]

----------------------------------------------------------------------------
(* Orchestrator: intent-aware adjustment of update_player_stats arguments. *)

Intents ==
    {"exploration", "combat", "dialogue", "item_use", "self_harm",
     "escape_attempt", "rest", "unknown"}

Difficulties == {"trivial", "easy", "medium", "hard", "deadly"}

Tones == {"neutral", "aggressive", "fearful", "desperate", "cunning"}

\* A value of the router's function-call arguments: typeof value is type
\* ("undefined" when the field is absent); a string is str, a finite number
\* is num hundredths, NaN and the infinities have type "nonfinite".
Raw(type, str, num) == [type |-> type, str |-> str, num |-> num]

Undefined == Raw("undefined", "", 0)

RawString(s) == Raw("string", s, 0)

RawNumber(n) == Raw("number", "", n)

RouterResult(intent, confidence, suggestedDifficulty, emotionalTone) ==
    [intent |-> intent, confidence |-> confidence,
     suggestedDifficulty |-> suggestedDifficulty, emotionalTone |-> emotionalTone]

\* classifyIntent as it would be if it returned the arguments as received
ClassifyUnchecked(outcome) ==
    CASE outcome.kind = "error" -> RouterResult("unknown", 30, "medium", "neutral")
      [] outcome.kind = "nocall" -> RouterResult("unknown", 50, "medium", "neutral")
      [] OTHER -> RouterResult(outcome.args.intent.str, outcome.args.confidence.num,
                               outcome.args.suggestedDifficulty.str,
                               outcome.args.emotionalTone.str)

\* classifyIntent on what the backend does: it fails (a rejected fetch, a
\* response that is not ok, no service configured, a malformed candidate),
\* it answers without function-call arguments, or it answers with some.
classifyIntent(outcome) ==
    CASE outcome.kind = "error" -> RouterResult("unknown", 30, "medium", "neutral")
      [] outcome.kind = "nocall" -> RouterResult("unknown", 50, "medium", "neutral")
      [] OTHER ->
            LET args == outcome.args
            IN  RouterResult(
                    IF args.intent.type = "string" /\ args.intent.str \in Intents
                    THEN args.intent.str ELSE "unknown",
                    IF args.confidence.type = "number"
                    THEN Max(0, Min(100, args.confidence.num)) ELSE 50,
                    IF args.suggestedDifficulty.type = "string"
                       /\ args.suggestedDifficulty.str \in Difficulties
                    THEN args.suggestedDifficulty.str ELSE "medium",
                    IF args.emotionalTone.type = "string"
                       /\ args.emotionalTone.str \in Tones
                    THEN args.emotionalTone.str ELSE "neutral")

\* buildRouterContext: no result without a Gemini key, else the
\* classification
buildRouterContext(geminiApiKey, outcome) ==
    IF geminiApiKey THEN <<classifyIntent(outcome)>> ELSE <<>>

physicalIntents == {"combat", "escape_attempt"}

mentalIntents == {"exploration", "dialogue", "escape_attempt", "rest", "item_use", "unknown"}

\* Math.round(n / d) for d > 0: the nearest integer, a tie going up.
RoundDiv(n, d) == (2 * n + d) \div (2 * d)

\* The modifier is carried in hundredths: modifier = m100 / 100.
\* Math.round(delta * (1 - modifier)) as it would be returned without the
\* test for 0
RoundedNoFloor(num, den, m100) == RoundDiv(num * (100 - m100), 100 * den)

\* The negative branch of adjustNegativeDelta for delta = num / den (den > 0):
\* Math.round(delta * (1 - modifier)), and -1 when that is 0.
RoundedOrFloor(num, den, m100) ==
    LET adjustedValue == RoundDiv(num * (100 - m100), 100 * den)
    IN  IF adjustedValue = 0 THEN -1 ELSE adjustedValue

adjustNegativeDelta(delta, m100) ==
    IF delta >= 0 THEN delta ELSE RoundedOrFloor(delta, 1, m100)

adjustStatUpdates(args, st, intent) ==
    LET physicalModifier ==
            clamp((st.stats.strength - 5) * 4 + (st.stats.dexterity - 5) * 3, -30, 30)
        mentalModifier == clamp((st.stats.intelligence - 5) * 5, -25, 25)
        a1 == IF Has(args, "hp") /\ intent \in physicalIntents
              THEN [args EXCEPT !.hp = adjustNegativeDelta(@, physicalModifier)]
              ELSE args
    IN  IF Has(a1, "sanity") /\ intent \in mentalIntents
        THEN [a1 EXCEPT !.sanity = adjustNegativeDelta(@, mentalModifier)]
        ELSE a1

\* One function call of a model response, as the tool loop handles it:
\* update_player_stats arguments are adjusted, then the tool is executed.
ExecuteCall(cx, st, call, intent, uuid) ==
    executeTool(cx, st, call.name,
                IF call.name = "update_player_stats"
                THEN adjustStatUpdates(call.args, st, intent)
                ELSE call.args,
                uuid)

IsAdd(call) ==
    /\ call.name = "inventory_action"
    /\ validateNonEmptyString(call.args, "action")
    /\ validateNonEmptyString(call.args, "itemName")
    /\ ToLowerCase(Trim(call.args.action)) = "add"

\* The tool loop as it would be if a failed call ended the round
RECURSIVE RunUntilFailure(_, _, _, _, _)
RunUntilFailure(cx, st, calls, intent, uuid) ==
    IF calls = <<>>
    THEN [ctx |-> cx, state |-> st, uuid |-> uuid]
    ELSE LET r == ExecuteCall(cx, st, Head(calls), intent, uuid + 1)
         IN  IF r.result.success
             THEN RunUntilFailure(r.ctx, r.state, Tail(calls), intent,
                                  IF IsAdd(Head(calls)) THEN uuid + 1 ELSE uuid)
             ELSE [ctx |-> r.ctx, state |-> r.state, uuid |-> uuid]

\* All function calls of one response, in the order received.  uuid is the
\* number of item ids generated before; each add takes the next one.
RECURSIVE RunCalls(_, _, _, _, _)
RunCalls(cx, st, calls, intent, uuid) ==
    IF calls = <<>>
    THEN [ctx |-> cx, state |-> st, uuid |-> uuid]
    ELSE LET r == ExecuteCall(cx, st, Head(calls), intent, uuid + 1)
         IN  RunCalls(r.ctx, r.state, Tail(calls), intent,
                      IF IsAdd(Head(calls)) THEN uuid + 1 ELSE uuid)

----------------------------------------------------------------------------
(* Orchestrator: extraction of the final narrative.                        *)
(* A string that may span lines is the sequence of its lines; a line is    *)
(* its list marker ("" when it has none) and the text after the marker.    *)
(* A model text also carries what JSON.parse makes of it, when it parses.  *)

Line(mark, body) == [mark |-> mark, body |-> body]

Str(s) == <<Line("", s)>>

EmptyStr == Str("")

\* Markers matched by /^\s*[1-3]\s*[.):]/ in extractChoices
ChoiceMarks == {"1.", "2.", "3.", "1)", "2)", "3:"}

\* Markers matched by /\n\s*[1-3１-３]\s*[.):．）\]]/ in cleanStoryText
CleanMarks == ChoiceMarks \cup {"1]", "FW1."}

BulletMarks == {"-", "*bullet"}

\* String.prototype.trim on a one-line text, then .replace(/^\[|\]$/g, "")
Bracketed == ("[Run]" :> "Run") @@ ("[]" :> "") @@ ("[Hide" :> "Hide")

StripBrackets(s) == IF s \in DOMAIN Bracketed THEN Bracketed[s] ELSE s

\* .replace(/\[[A-Z0-9 _-]{2,}\]/g, "") and the code-fence removal on one line
TagOnly == {"[SYSTEM]", "<code fence>"}

PushNew(choices, c) == IF c # "" /\ ~Includes(choices, c) THEN Append(choices, c) ELSE choices

RECURSIVE NumberedChoices(_, _)
NumberedChoices(lines, choices) ==
    IF lines = <<>> THEN choices
    ELSE LET l == Head(lines)
         IN  NumberedChoices(Tail(lines),
                IF l.mark \in ChoiceMarks /\ l.body # ""
                THEN PushNew(choices, StripBrackets(Trim(l.body)))
                ELSE choices)

RECURSIVE BulletChoices(_, _)
BulletChoices(lines, choices) ==
    IF lines = <<>> THEN choices
    ELSE LET l == Head(lines)
         IN  BulletChoices(Tail(lines),
                IF l.mark \in BulletMarks /\ l.body # ""
                THEN PushNew(choices, Trim(l.body))
                ELSE choices)

defaults == <<"Osmotretsya vokrug", "Popytatsya dvigatsya dalshe", "Zameret i prislushatsya">>

RECURSIVE PadDefaults(_)
PadDefaults(choices) ==
    IF Len(choices) < 3 THEN PadDefaults(Append(choices, defaults[Len(choices) + 1]))
    ELSE choices

\* extractChoices as it would be without the final slice(0, 3)
ExtractNoSlice(text) ==
    LET numbered == NumberedChoices(text, <<>>)
        withBullets == IF Len(numbered) < 3 THEN BulletChoices(text, numbered) ELSE numbered
    IN  PadDefaults(withBullets)

extractChoices(text) ==
    LET numbered == NumberedChoices(text, <<>>)
        withBullets == IF Len(numbered) < 3 THEN BulletChoices(text, numbered) ELSE numbered
    IN  SubSeq(PadDefaults(withBullets), 1, 3)

IsBlankLine(l) == l.mark = "" /\ Trim(l.body) = ""

RECURSIVE TrimLeft(_)
TrimLeft(lines) ==
    IF lines # <<>> /\ IsBlankLine(Head(lines)) THEN TrimLeft(Tail(lines)) ELSE lines

RECURSIVE TrimRight(_)
TrimRight(lines) ==
    IF lines # <<>> /\ IsBlankLine(lines[Len(lines)])
    THEN TrimRight(SubSeq(lines, 1, Len(lines) - 1))
    ELSE lines

\* trim() of a multi-line string; the empty string is the one empty line
TrimText(lines) ==
    LET t == TrimRight(TrimLeft(lines)) IN IF t = <<>> THEN EmptyStr ELSE t

\* cleanStoryText as it would be without its fallback line
CleanNoFallback(text) ==
    LET keep(i) == i = 1 \/ ~(text[i].mark \in (CleanMarks \cup BulletMarks) /\ text[i].body # "")
        kept == [j \in 1..Cardinality({i \in 1..Len(text) : keep(i)}) |->
                    text[CHOOSE i \in 1..Len(text) :
                            keep(i) /\ Cardinality({k \in 1..i : keep(k)}) = j]]
        untagged == [i \in 1..Len(TrimText(kept)) |->
                        LET l == TrimText(kept)[i]
                        IN  IF l.mark = "" /\ l.body \in TagOnly THEN Line("", "") ELSE l]
    IN  TrimText(untagged)

cleanStoryText(text) ==
    LET keep(i) == i = 1 \/ ~(text[i].mark \in (CleanMarks \cup BulletMarks) /\ text[i].body # "")
        kept == [j \in 1..Cardinality({i \in 1..Len(text) : keep(i)}) |->
                    text[CHOOSE i \in 1..Len(text) :
                            keep(i) /\ Cardinality({k \in 1..i : keep(k)}) = j]]
        untagged == [i \in 1..Len(TrimText(kept)) |->
                        LET l == TrimText(kept)[i]
                        IN  IF l.mark = "" /\ l.body \in TagOnly THEN Line("", "") ELSE l]
        cleaned == TrimText(untagged)
    IN  IF cleaned = EmptyStr THEN Str("AM nablyudaet za toboy v tishine...") ELSE cleaned

\* A model text: raw, the lines of the text; json, what parseJsonWithCleanup
\* returns for it (none when it throws).
Text(raw, json) == [raw |-> raw, json |-> json]

\* orchestratorOutputSchema: a strict object of a story_text string of
\* length >= 1 and exactly 3 choices, each a string of length >= 1.
ObjectChoice == "{text, check}"

\* The object a choice that is not a string stands for
ObjectChoices ==
    ObjectChoice :> [text |-> "Force", check |-> [stat |-> "strength", required |-> 40]]

SchemaAccepts(j) ==
    /\ ~j.extraKeys
    /\ j.story_text # <<>>
    /\ j.story_text[1] # EmptyStr
    /\ Len(j.choices) = 3
    /\ \A i \in 1..Len(j.choices) : j.choices[i] # "" /\ j.choices[i] # ObjectChoice

\* parseStructuredOutput: none unless the text parses and the schema accepts it
parseStructuredOutput(text) ==
    IF text.json # <<>> /\ SchemaAccepts(text.json[1])
    THEN <<[storyText |-> cleanStoryText(text.json[1].story_text[1]),
            choices |-> text.json[1].choices]>>
    ELSE <<>>

\* getFinalTextFromResponse: the text parts of the response, "" when none
getFinalTextFromResponse(response) == response.text

\* buildResponse as it would be without the test of hp and sanity
BuildNoBackstop(response, cx, st) ==
    LET finalText == IF getFinalTextFromResponse(response).raw = EmptyStr
                     THEN Text(Str("AM molchit..."), <<>>)
                     ELSE getFinalTextFromResponse(response)
        structured == parseStructuredOutput(finalText)
    IN  [state |-> st,
         response |-> [storyText |-> IF structured # <<>> THEN structured[1].storyText
                                     ELSE cleanStoryText(finalText.raw),
                       choices |-> IF structured # <<>> THEN structured[1].choices
                                   ELSE extractChoices(finalText.raw),
                       imagePrompt |-> cx.imagePrompt,
                       toolCalls |-> cx.toolCalls,
                       isGameOver |-> cx.gameOverTriggered,
                       gameOverDescription |-> cx.gameOverDescription]]

\* buildResponse: extract story and choices from the final text, then the
\* game-over backstop on the state the tools left.
buildResponse(response, cx, st) ==
    LET finalText == IF getFinalTextFromResponse(response).raw = EmptyStr
                     THEN Text(Str("AM molchit..."), <<>>)
                     ELSE getFinalTextFromResponse(response)
        structured == parseStructuredOutput(finalText)
        storyText == IF structured # <<>> THEN structured[1].storyText
                     ELSE cleanStoryText(finalText.raw)
        choices == IF structured # <<>> THEN structured[1].choices
                   ELSE extractChoices(finalText.raw)
        byHp == ~cx.gameOverTriggered /\ st.stats.hp <= 0
        bySanity == ~cx.gameOverTriggered /\ st.stats.hp > 0 /\ st.stats.sanity <= 0
        cx2 == IF byHp
               THEN [cx EXCEPT !.gameOverTriggered = TRUE,
                               !.gameOverDescription = <<"Tvoyo telo ne vyderzhalo.">>]
               ELSE IF bySanity
               THEN [cx EXCEPT !.gameOverTriggered = TRUE,
                               !.gameOverDescription = <<"Tvoy razum rassypalsya.">>]
               ELSE cx
    IN  [state |-> IF byHp \/ bySanity THEN [st EXCEPT !.isGameOver = TRUE] ELSE st,
         response |-> [storyText |-> storyText,
                       choices |-> choices,
                       imagePrompt |-> cx2.imagePrompt,
                       toolCalls |-> cx2.toolCalls,
                       isGameOver |-> cx2.gameOverTriggered,
                       gameOverDescription |-> cx2.gameOverDescription]]

----------------------------------------------------------------------------
(* Image service and key pool.  What the backends answer is an input: the  *)
(* cache lookup, the Vertex AI request, and one outcome per attempt of     *)
(* generateImageStudio.                                                    *)

maxStudioAttempts == 3

\* The result of generateImage: it throws, or it resolves with a URL.
Thrown == [threw |-> TRUE, url |-> <<>>]

Resolved(url) == [threw |-> FALSE, url |-> url]

\* generateImageStudio from attempt on, with `keys` keys in the pool of which
\* `dead` are marked dead.  getNextKey, called before the try block, throws
\* when no key is left; an invalid key is marked dead and the next one tried;
\* a rate limit, another error or a response without image data end the loop.
RECURSIVE generateImageStudio(_, _, _, _)
generateImageStudio(keys, dead, outcomes, attempt) ==
    IF attempt >= maxStudioAttempts THEN Resolved(<<>>)
    ELSE IF dead >= keys THEN Thrown
    ELSE CASE outcomes[attempt + 1] = "image" -> Resolved(<<"data:image/png;base64">>)
           [] outcomes[attempt + 1] = "invalid" ->
                    generateImageStudio(keys, dead + 1, outcomes, attempt + 1)
           [] OTHER -> Resolved(<<>>)

\* generateImage(prompt) under a configuration and the answers in `io`
generateImage(prompt, io) ==
    IF Trim(prompt) = "" THEN Resolved(<<"https://placehold.co/1024x1024/png?text=AM">>)
    ELSE IF io.cached # <<>> THEN Resolved(io.cached)
    ELSE LET vertex == IF io.useVertexAI /\ io.vertex = "image"
                       THEN <<"data:image/png;base64">> ELSE <<>>
             studio == IF vertex = <<>> /\ io.geminiApiKey
                       THEN generateImageStudio(io.keys, io.dead, io.outcomes, 0)
                       ELSE Resolved(vertex)
         IN  IF studio.threw THEN Thrown
             ELSE IF studio.url # <<>> THEN studio
             ELSE Resolved(<<"https://placehold.co/1024x1024/png?text=prompt">>)

\* What a handler gets from `await generateImage(...)`: the URL, or nothing
\* when it throws.
ImageOf(result) == IF result.threw THEN <<>> ELSE result.url

----------------------------------------------------------------------------
(* Session store. *)

INTRO_TEXT == Str("Ty prikhodish v sebya v kholodnoy metallicheskoy kapsule.")

INTRO_CHOICES == <<"Oshchupat steny kapsuly", "Prokrichat v pustotu", "Sest i uspokoit dykhanie">>

INTRO_IMAGE_PROMPT == "A claustrophobic metal chamber"

DEFAULT_STATS ==
    [hp |-> 100, sanity |-> 100, strength |-> 5, intelligence |-> 5, dexterity |-> 5]

\* The GameState createSession builds.  turn, environment, currentLocation,
\* locationHistory and pendingChoices are not set there: turn is read as
\* (state.turn ?? 0), the others are absent (an absent list is the empty one).
NewGameState ==
    [stats |-> DEFAULT_STATS,
     inventory |-> <<>>,
     tags |-> <<>>,
     history |-> <<[role |-> "model", parts |-> INTRO_TEXT]>>,
     isGameOver |-> FALSE,
     turn |-> 0,
     currentLocation |-> <<>>,
     locationHistory |-> <<>>,
     environment |-> <<>>,
     pendingChoices |-> <<>>]

MAX_HISTORY == 24

\* pushHistory as it would be if it kept the oldest entries
PushKeepsOldest(history, entry) ==
    LET h == Append(history, entry)
    IN  IF Len(h) > MAX_HISTORY THEN SubSeq(h, 1, MAX_HISTORY) ELSE h

pushHistory(history, entry) ==
    LET h == Append(history, entry)
    IN  IF Len(h) > MAX_HISTORY THEN SubSeq(h, Len(h) - MAX_HISTORY + 1, Len(h)) ELSE h

serializeState(st) ==
    [stats |-> st.stats, inventory |-> st.inventory, tags |-> st.tags,
     isGameOver |-> st.isGameOver]

----------------------------------------------------------------------------
(* HTTP requests and responses. *)

Idle ==
    [pc |-> "idle", action |-> "", intent |-> "unknown", ctx |-> createExecutionContext,
     iterations |-> 0, pre |-> <<>>, out |-> <<>>, choiceCheck |-> <<>>, contents |-> <<>>,
     attempt |-> 0, keyAttempt |-> 0,
     router |-> <<>>, other |-> <<>>]

Request(kind, sessionId, action) == [kind |-> kind, sessionId |-> sessionId, action |-> action]

\* Session ids are numbers; 0 stands for a sessionId that fails the schema
\* (missing or empty) in /action and for no sessionId in /restart.
NoSession == 0

Response(kind, sid, status, body) ==
    [kind |-> kind, sessionId |-> sid, status |-> status, body |-> body]

IntroBody(st, mode, image) ==
    [story_text |-> INTRO_TEXT, choices |-> INTRO_CHOICES,
     image_prompt |-> <<INTRO_IMAGE_PROMPT>>, image_url |-> image,
     state |-> <<serializeState(st)>>, mode |-> mode, toolCalls |-> <<>>,
     isGameOver |-> FALSE, gameOverDescription |-> <<>>]

ErrorBody(st) ==
    [story_text |-> EmptyStr, choices |-> <<>>, image_prompt |-> <<>>, image_url |-> <<>>,
     state |-> st, mode |-> "error", toolCalls |-> <<>>,
     isGameOver |-> FALSE, gameOverDescription |-> <<>>]

\* No response has been sent to the request received last.
NoResponse == Response("none", NoSession, 0, ErrorBody(<<>>))

\* updates.f = (updates.f || 0) + v
AddTo(updates, f, v) ==
    IF f \in DOMAIN updates THEN [updates EXCEPT ![f] = @ + v] ELSE updates @@ (f :> v)

RECURSIVE AddFields(_, _, _)
AddFields(updates, source, fields) ==
    IF fields = <<>> THEN updates
    ELSE AddFields(IF Has(source, Head(fields))
                   THEN AddTo(updates, Head(fields), source[Head(fields)])
                   ELSE updates,
                   source, Tail(fields))

StatFields == <<"hp", "sanity", "strength", "intelligence", "dexterity">>

\* extractStatUpdates as it would be if it read every entry of the log
RECURSIVE ExtractFromEveryEntry(_, _)
ExtractFromEveryEntry(toolCalls, updates) ==
    IF toolCalls = <<>> THEN updates
    ELSE ExtractFromEveryEntry(Tail(toolCalls),
                               AddFields(updates, Head(toolCalls).args, StatFields))

\* The loop of extractStatUpdates.  No tool result carries appliedDelta, so
\* the source of an entry is its logged arguments.
RECURSIVE ExtractFrom(_, _)
ExtractFrom(toolCalls, updates) ==
    IF toolCalls = <<>> THEN updates
    ELSE LET call == Head(toolCalls)
         IN  ExtractFrom(Tail(toolCalls),
                         IF call.toolName = "update_player_stats" /\ call.result.success
                         THEN AddFields(updates, call.args, StatFields)
                         ELSE updates)

extractStatUpdates(toolCalls) == ExtractFrom(toolCalls, [f \in {} |-> 0])

ActionBody(st, out, image) ==
    [story_text |-> out.storyText, stat_updates |-> extractStatUpdates(out.toolCalls),
     choices |-> out.choices,
     image_prompt |-> out.imagePrompt, image_url |-> image,
     state |-> <<serializeState(st)>>, mode |-> "function_calling",
     toolCalls |-> out.toolCalls,
     isGameOver |-> out.isGameOver, gameOverDescription |-> out.gameOverDescription]

\* createSession: a fresh id and a fresh state, put into the map
createSession(sid) ==
    /\ sessions' = (sid :> NewGameState) @@ sessions
    /\ req' = (sid :> Idle) @@ req
    /\ nextSession' = sid

\* POST /start.  image is the URL generateImage resolves to, or none when
\* it throws: the session is created before, the error handler answers 500.
Start(image) ==
    /\ nReq < MaxRequests
    /\ nextSession < MaxSessions
    /\ createSession(nextSession + 1)
    /\ store' = store \cup {nextSession + 1}
    /\ nReq' = nReq + 1
    /\ lastReq' = Request("start", NoSession, "")
    /\ lastResp' = IF image = <<>>
                   THEN Response("start", NoSession, 500, ErrorBody(<<>>))
                   ELSE Response("start", nextSession + 1, 200,
                                 IntroBody(NewGameState, "intro", image))
    /\ UNCHANGED <<modules, backend, nextItem, nCalls>>

\* /restart as it would be if it resumed the session it is given
RestartResumes(old, image) ==
    /\ nReq < MaxRequests
    /\ nextSession < MaxSessions
    /\ old # nextSession + 1
    /\ sessions' = ((nextSession + 1) :>
                        (IF old \in store THEN sessions[old] ELSE NewGameState)) @@ sessions
    /\ req' = ((nextSession + 1) :> Idle) @@ req
    /\ nextSession' = nextSession + 1
    /\ store' = (IF old # NoSession THEN store \ {old} ELSE store) \cup {nextSession + 1}
    /\ nReq' = nReq + 1
    /\ lastReq' = Request("restart", old, "")
    /\ lastResp' = Response("restart", nextSession + 1, 200,
                            IntroBody(sessions'[nextSession + 1], "restart", image))
    /\ UNCHANGED <<modules, backend, nextItem, nCalls>>

\* POST /restart: the old session, if one is named, is deleted; a new one
\* is created.  The id uuidv4 generates is none a client has sent before.
\* image is as in Start.
Restart(old, image) ==
    /\ nReq < MaxRequests
    /\ nextSession < MaxSessions
    /\ old # nextSession + 1
    /\ createSession(nextSession + 1)
    /\ store' = (IF old # NoSession THEN store \ {old} ELSE store) \cup {nextSession + 1}
    /\ nReq' = nReq + 1
    /\ lastReq' = Request("restart", old, "")
    /\ lastResp' = IF image = <<>>
                   THEN Response("restart", NoSession, 500, ErrorBody(<<>>))
                   ELSE Response("restart", nextSession + 1, 200,
                                 IntroBody(NewGameState, "restart", image))
    /\ UNCHANGED <<modules, backend, nextItem, nCalls>>

normalizePendingChoices(choices) ==
    [i \in 1..Len(choices) |->
        IF choices[i] \in DOMAIN ObjectChoices THEN ObjectChoices[choices[i]]
        ELSE [text |-> choices[i]]]

\* pending.find(choice => choice.text.trim() === normalizedAction)
FindChoice(pending, action) ==
    LET hits == {i \in 1..Len(pending) : Trim(pending[i].text) = Trim(action)}
    IN  IF hits = {} THEN <<>>
        ELSE <<pending[CHOOSE i \in hits : \A j \in hits : i <= j]>>

\* Math.max(0, Math.min(1, current / required)) for required > 0, as a
\* fraction num / den with den > 0
ClampedRatio(current, required) ==
    IF current <= 0 THEN [num |-> 0, den |-> 1]
    ELSE IF current >= required THEN [num |-> 1, den |-> 1]
    ELSE [num |-> current, den |-> required]

\* roll <= chance, the roll in hundredths
RollWithin(roll, chance) == roll * chance.den <= 100 * chance.num

\* resolveChoiceCheck as it would be with roll < chance
ResolveStrictRoll(st, action, roll) ==
    LET matched == FindChoice(st.pendingChoices, action)
    IN  IF matched = <<>> \/ ~Has(matched[1], "check") THEN <<>>
        ELSE LET check == matched[1].check
                 current == st.stats[check.stat]
                 chance == IF check.required > 0 THEN ClampedRatio(current, check.required)
                           ELSE [num |-> 1, den |-> 1]
             IN  <<[stat |-> check.stat, required |-> check.required, current |-> current,
                    chance |-> chance, roll |-> roll,
                    success |-> roll * chance.den < 100 * chance.num]>>

\* resolveChoiceCheck: none unless the action is the text of a pending choice
\* that carries a check; roll is what Math.random() returns, in hundredths.
resolveChoiceCheck(st, action, roll) ==
    LET matched == FindChoice(st.pendingChoices, action)
    IN  IF matched = <<>> \/ ~Has(matched[1], "check") THEN <<>>
        ELSE LET check == matched[1].check
                 current == st.stats[check.stat]
                 chance == IF check.required > 0 THEN ClampedRatio(current, check.required)
                           ELSE [num |-> 1, den |-> 1]
             IN  <<[stat |-> check.stat, required |-> check.required, current |-> current,
                    chance |-> chance, roll |-> roll,
                    success |-> RollWithin(roll, chance)]>>

\* /action as it would be if the turn were counted before the isGameOver test
CheckAfterIncrement(sessionId, action, roll) ==
    /\ nReq < MaxRequests
    /\ nReq' = nReq + 1
    /\ lastReq' = Request("action", sessionId, action)
    /\ UNCHANGED <<modules, backend, store, nextSession, nextItem, nCalls>>
    /\ IF sessionId = NoSession \/ action = ""
       THEN /\ lastResp' = Response("action", sessionId, 400, ErrorBody(<<>>))
            /\ UNCHANGED <<sessions, req>>
       ELSE IF sessionId \notin store
       THEN /\ lastResp' = Response("action", sessionId, 404, ErrorBody(<<>>))
            /\ UNCHANGED <<sessions, req>>
       ELSE IF sessions[sessionId].isGameOver
       THEN /\ sessions' = [sessions EXCEPT ![sessionId].turn = @ + 1]
            /\ lastResp' = Response("action", sessionId, 409,
                                    ErrorBody(<<serializeState(sessions'[sessionId])>>))
            /\ UNCHANGED req
       ELSE /\ req[sessionId].pc = "idle"
            /\ sessions' = [sessions EXCEPT ![sessionId].turn = @ + 1]
            /\ req' = [req EXCEPT ![sessionId] =
                        [pc |-> "router", action |-> action, intent |-> "unknown",
                         ctx |-> createExecutionContext, iterations |-> 0,
                         pre |-> <<sessions[sessionId]>>, out |-> <<>>,
                         choiceCheck |-> resolveChoiceCheck(sessions'[sessionId], action, roll),
                         contents |-> <<>>, attempt |-> 0, keyAttempt |-> 0,
                         router |-> <<>>, other |-> req[sessionId].other]]
            /\ lastResp' = NoResponse

\* /action as it would be if the session were looked up before the payload
\* is validated
LookupBeforePayload(sessionId, action, roll) ==
    /\ nReq < MaxRequests
    /\ nReq' = nReq + 1
    /\ lastReq' = Request("action", sessionId, action)
    /\ UNCHANGED <<modules, backend, store, nextSession, nextItem, nCalls>>
    /\ IF sessionId \notin store
       THEN /\ lastResp' = Response("action", sessionId, 404, ErrorBody(<<>>))
            /\ UNCHANGED <<sessions, req>>
       ELSE IF sessions[sessionId].isGameOver
       THEN /\ lastResp' = Response("action", sessionId, 409,
                                    ErrorBody(<<serializeState(sessions[sessionId])>>))
            /\ UNCHANGED <<sessions, req>>
       ELSE IF action = ""
       THEN /\ lastResp' = Response("action", sessionId, 400, ErrorBody(<<>>))
            /\ UNCHANGED <<sessions, req>>
       ELSE /\ req[sessionId].pc = "idle"
            /\ sessions' = [sessions EXCEPT ![sessionId].turn = @ + 1]
            /\ req' = [req EXCEPT ![sessionId] =
                        [pc |-> "router", action |-> action, intent |-> "unknown",
                         ctx |-> createExecutionContext, iterations |-> 0,
                         pre |-> <<sessions[sessionId]>>, out |-> <<>>,
                         choiceCheck |-> resolveChoiceCheck(sessions'[sessionId], action, roll),
                         contents |-> <<>>, attempt |-> 0, keyAttempt |-> 0,
                         router |-> <<>>, other |-> req[sessionId].other]]
            /\ lastResp' = NoResponse

\* POST /action up to its first await: the payload check (400), the session
\* lookup (404), the game-over check (409), then the turn counter and the
\* choice check.  One /action per session is in flight at a time.
ActionRequest(sessionId, action, roll) ==
    /\ nReq < MaxRequests
    /\ nReq' = nReq + 1
    /\ lastReq' = Request("action", sessionId, action)
    /\ UNCHANGED <<modules, backend, store, nextSession, nextItem, nCalls>>
    /\ IF sessionId = NoSession \/ action = ""
       THEN /\ lastResp' = Response("action", sessionId, 400, ErrorBody(<<>>))
            /\ UNCHANGED <<sessions, req>>
       ELSE IF sessionId \notin store
       THEN /\ lastResp' = Response("action", sessionId, 404, ErrorBody(<<>>))
            /\ UNCHANGED <<sessions, req>>
       ELSE IF sessions[sessionId].isGameOver
       THEN /\ lastResp' = Response("action", sessionId, 409,
                                    ErrorBody(<<serializeState(sessions[sessionId])>>))
            /\ UNCHANGED <<sessions, req>>
       ELSE /\ req[sessionId].pc = "idle"
            /\ sessions' = [sessions EXCEPT ![sessionId].turn = @ + 1]
            /\ req' = [req EXCEPT ![sessionId] =
                        [pc |-> "router", action |-> action, intent |-> "unknown",
                         ctx |-> createExecutionContext, iterations |-> 0,
                         pre |-> <<sessions[sessionId]>>, out |-> <<>>,
                         choiceCheck |-> resolveChoiceCheck(sessions'[sessionId], action, roll),
                         contents |-> <<>>, attempt |-> 0, keyAttempt |-> 0,
                         router |-> <<>>, other |-> req[sessionId].other]]
            /\ lastResp' = NoResponse

\* The request ends with an error the controller's catch turns into a status:
\* 429 when the message names a rate limit, otherwise the error handler's 500.
Abort(sid, status) ==
    /\ req' = [req EXCEPT ![sid] = [Idle EXCEPT !.other = req[sid].other]]
    /\ lastResp' = Response("action", sid, status, ErrorBody(<<>>))

\* buildRouterContext resolves (classifyIntent never throws; a failed
\* classification counts as "unknown"), and processPlayerAction picks the
\* backend and issues the first model call, or throws when none is configured.
RouterDone(sid, intent) ==
    /\ req[sid].pc = "router"
    /\ IF backend = "none"
       THEN Abort(sid, 500)
       ELSE /\ req' = [req EXCEPT ![sid].pc = "model", ![sid].intent = intent]
            /\ UNCHANGED lastResp
    /\ UNCHANGED <<modules, backend, sessions, store, nextSession, nextItem, nReq, nCalls, lastReq>>

\* RouterDone with the router context built from what the backend did
RouterReplies(sid, geminiApiKey, outcome) ==
    /\ req[sid].pc = "router"
    /\ backend = "google" => geminiApiKey
    /\ LET routerContext == buildRouterContext(geminiApiKey, outcome)
       IN  IF backend = "none"
           THEN Abort(sid, 500)
           ELSE /\ req' = [req EXCEPT ![sid].pc = "model",
                                      ![sid].router = routerContext,
                                      ![sid].intent = IF routerContext = <<>> THEN "unknown"
                                                      ELSE routerContext[1].intent]
                /\ UNCHANGED lastResp
    /\ UNCHANGED <<modules, backend, sessions, store, nextSession, nextItem, nReq, nCalls, lastReq>>

maxIterations == 10

\* The rest of the /action handler once the orchestrator has returned:
\* pendingChoices, the two history entries, the 200 response.
Complete(sid, st, out, image) ==
    /\ sessions' = [sessions EXCEPT ![sid] =
            [st EXCEPT !.pendingChoices = normalizePendingChoices(out.choices),
                       !.history = pushHistory(
                                     pushHistory(@, [role |-> "user",
                                                     parts |-> Str(req[sid].action)]),
                                     [role |-> "model", parts |-> out.storyText])]]
    /\ req' = [req EXCEPT ![sid] = [Idle EXCEPT !.other = req[sid].other]]
    /\ lastResp' = Response("action", sid, 200, ActionBody(sessions'[sid], out, image))

\* buildResponse, then the controller: with an image prompt it awaits
\* generateImage, without one it completes the request.
Finish(sid, response, cx, st) ==
    LET b == buildResponse(response, cx, st)
    IN  IF b.response.imagePrompt # <<>>
        THEN /\ sessions' = [sessions EXCEPT ![sid] = b.state]
             /\ req' = [req EXCEPT ![sid].pc = "image", ![sid].ctx = cx,
                                   ![sid].out = <<b.response>>]
             /\ UNCHANGED lastResp
        ELSE Complete(sid, b.state, b.response, <<>>)

\* The end of the tool loop as it would be if the Google AI path always
\* asked again
PostLoopAlwaysAsks(sid, response, cx, st) ==
    IF backend = "google"
    THEN /\ sessions' = [sessions EXCEPT ![sid] = st]
         /\ req' = [req EXCEPT ![sid].pc = "final", ![sid].ctx = cx,
                               ![sid].attempt = 0, ![sid].keyAttempt = 0]
         /\ UNCHANGED lastResp
    ELSE Finish(sid, response, cx, st)

\* After the tool loop.  The Google AI path re-asks for strict JSON when the
\* last response does not parse as structured output; the Vertex AI path
\* builds the response from the last response as it is.
PostLoop(sid, response, cx, st) ==
    IF backend = "google" /\ parseStructuredOutput(getFinalTextFromResponse(response)) = <<>>
    THEN /\ sessions' = [sessions EXCEPT ![sid] = st]
         /\ req' = [req EXCEPT ![sid].pc = "final", ![sid].ctx = cx,
                               ![sid].attempt = 0, ![sid].keyAttempt = 0]
         /\ UNCHANGED lastResp
    ELSE Finish(sid, response, cx, st)

\* the tool loop as it would be without the test of iterations
LoopWithoutCap(sid, response) ==
    /\ req[sid].pc = "model"
    /\ LET r == req[sid]
           run == RunCalls(r.ctx, sessions[sid], response.calls, r.intent, nextItem)
       IN  IF response.calls # <<>>
           THEN /\ sessions' = [sessions EXCEPT ![sid] = run.state]
                /\ req' = [req EXCEPT ![sid].ctx = run.ctx,
                                      ![sid].iterations = r.iterations + 1,
                                      ![sid].contents = @ \o response.calls,
                                      ![sid].attempt = 0, ![sid].keyAttempt = 0]
                /\ nextItem' = run.uuid
                /\ nCalls' = nCalls + Len(response.calls)
                /\ UNCHANGED lastResp
           ELSE /\ PostLoop(sid, response, r.ctx, sessions[sid])
                /\ UNCHANGED <<nextItem, nCalls>>
    /\ UNCHANGED <<modules, backend, store, nextSession, nReq, lastReq>>

\* The tool loop as it would be if createSession gave every session the
\* same stats object
SharedStats(sid, response) ==
    /\ req[sid].pc = "model"
    /\ LET r == req[sid]
           run == RunCalls(r.ctx, sessions[sid], response.calls, r.intent, nextItem)
       IN  IF r.iterations < maxIterations /\ response.calls # <<>>
           THEN /\ sessions' = [s \in DOMAIN sessions |->
                                    IF s = sid THEN run.state
                                    ELSE [sessions[s] EXCEPT !.stats = run.state.stats]]
                /\ req' = [req EXCEPT ![sid].ctx = run.ctx,
                                      ![sid].iterations = r.iterations + 1,
                                      ![sid].contents = @ \o response.calls,
                                      ![sid].attempt = 0, ![sid].keyAttempt = 0]
                /\ nextItem' = run.uuid
                /\ nCalls' = nCalls + Len(response.calls)
                /\ UNCHANGED lastResp
           ELSE /\ PostLoop(sid, response, r.ctx, sessions[sid])
                /\ UNCHANGED <<nextItem, nCalls>>
    /\ UNCHANGED <<modules, backend, store, nextSession, nReq, lastReq>>

\* A model response arrives in the tool loop: while (iterations < maxIterations)
\* { iterations++; no function call: break; execute each call in order; ask
\* the model again }.
ModelReplies(sid, response) ==
    /\ req[sid].pc = "model"
    /\ LET r == req[sid]
           run == RunCalls(r.ctx, sessions[sid], response.calls, r.intent, nextItem)
       IN  IF r.iterations < maxIterations /\ response.calls # <<>>
           THEN /\ sessions' = [sessions EXCEPT ![sid] = run.state]
                /\ req' = [req EXCEPT ![sid].ctx = run.ctx,
                                      ![sid].iterations = r.iterations + 1,
                                      ![sid].contents = @ \o response.calls,
                                      ![sid].attempt = 0, ![sid].keyAttempt = 0]
                /\ nextItem' = run.uuid
                /\ nCalls' = nCalls + Len(response.calls)
                /\ UNCHANGED lastResp
           ELSE /\ PostLoop(sid, response, r.ctx, sessions[sid])
                /\ UNCHANGED <<nextItem, nCalls>>
    /\ UNCHANGED <<modules, backend, store, nextSession, nReq, lastReq>>

\* The answer to the final re-ask arrives (Google AI path).
FinalReplies(sid, response) ==
    /\ req[sid].pc = "final"
    /\ Finish(sid, response, req[sid].ctx, sessions[sid])
    /\ UNCHANGED <<modules, backend, store, nextSession, nextItem, nReq, nCalls, lastReq>>

\* A failed model call as it would be if the controller gave the turn
\* number back
ModelFailsRollsBack(sid, status) ==
    /\ req[sid].pc \in {"model", "final"}
    /\ Abort(sid, status)
    /\ sessions' = [sessions EXCEPT ![sid].turn = @ - 1]
    /\ UNCHANGED <<modules, backend, store, nextSession, nextItem, nReq, nCalls, lastReq>>

\* A model call fails (after the retries of the collaborator layer): the
\* error leaves processPlayerAction and the controller answers 429 or 500.
ModelFails(sid, status) ==
    /\ req[sid].pc \in {"model", "final"}
    /\ Abort(sid, status)
    /\ UNCHANGED <<modules, backend, sessions, store, nextSession, nextItem, nReq, nCalls, lastReq>>

\* An error a model call is rejected with: the status property it carries
\* (0 when it has none) and its message.
ModelError(status, message) == [status |-> status, message |-> message]

\* msg.includes("429"), msg.includes("RESOURCE_EXHAUSTED") and the two tests
\* for an invalid key, on the messages the model draws from
MessagesNaming429 ==
    {"got status: 429 Too Many Requests", "Vertex AI error (429): quota",
     "got status: 429 Too Many Requests, retry in 90s"}

MessagesNamingExhausted == {"RESOURCE_EXHAUSTED: quota exceeded"}

MessagesNamingInvalidKey == {"API key not valid. Please pass a valid API key."}

NamesRateLimit(message) == message \in MessagesNaming429 \cup MessagesNamingExhausted

isRateLimitError(error) == error.status = 429 \/ NamesRateLimit(error.message)

maxRetries == 2

maxKeyRetries == 3

\* The catch block of /action for an error that is no ZodError
StatusOfError(error) == IF NamesRateLimit(error.message) THEN 429 ELSE 500

\* generateContent rejects (Google AI path).  withRetry sleeps and calls
\* again while the error is a rate limit and attempts are left, otherwise it
\* rethrows; generateWithRetry goes on to the next key after an invalid-key
\* error, and rethrows anything else to the controller.  (The marks these
\* calls leave in the key pool are followed in FnRejects and MarkKeyDead; no
\* step of a turn reads them.)
GenerateFails(sid, error) ==
    /\ backend = "google"
    /\ req[sid].pc \in {"model", "final"}
    /\ IF isRateLimitError(error) /\ req[sid].attempt < maxRetries
       THEN /\ req' = [req EXCEPT ![sid].attempt = @ + 1]
            /\ UNCHANGED lastResp
       ELSE IF error.message \in MessagesNamingInvalidKey
       THEN IF req[sid].keyAttempt + 1 < maxKeyRetries
            THEN /\ req' = [req EXCEPT ![sid].keyAttempt = @ + 1, ![sid].attempt = 0]
                 /\ UNCHANGED lastResp
            ELSE Abort(sid, 500)
       ELSE Abort(sid, StatusOfError(error))
    /\ UNCHANGED <<modules, backend, sessions, store, nextSession, nextItem, nReq, nCalls, lastReq>>

\* fetch resolves with a response that is not ok (Vertex AI path): the
\* orchestrator throws an Error whose message holds the HTTP status.
VertexFails(sid, status) ==
    /\ backend = "vertex"
    /\ req[sid].pc = "model"
    /\ Abort(sid, StatusOfError(ModelError(0, IF status = 429
                                              THEN "Vertex AI error (429): quota"
                                              ELSE "Vertex AI error (500): internal")))
    /\ UNCHANGED <<modules, backend, sessions, store, nextSession, nextItem, nReq, nCalls, lastReq>>

\* generateImage resolves with a URL, or with none (a throw is caught).
ImageDone(sid, image) ==
    /\ req[sid].pc = "image"
    /\ Complete(sid, sessions[sid], req[sid].out[1], image)
    /\ UNCHANGED <<modules, backend, store, nextSession, nextItem, nReq, nCalls, lastReq>>

\* A second /action on a session whose first /action is suspended at a
\* model call: the handler takes no lock, so it passes the same tests,
\* counts the turn and starts an orchestration of its own on the same
\* GameState object, with an execution context of its own.  The router's
\* step, which changes nothing, is part of this one.
SecondRequest(sid, action, roll, intent) ==
    /\ nReq < MaxRequests
    /\ sid \in store
    /\ action # ""
    /\ backend # "none"
    /\ req[sid].pc \in {"model", "final"}
    /\ req[sid].other = <<>>
    /\ ~sessions[sid].isGameOver
    /\ sessions' = [sessions EXCEPT ![sid].turn = @ + 1]
    /\ req' = [req EXCEPT ![sid].other =
                <<[pc |-> "model", action |-> action, intent |-> intent,
                   ctx |-> createExecutionContext, iterations |-> 0,
                   choiceCheck |-> resolveChoiceCheck(sessions'[sid], action, roll)]>>]
    /\ nReq' = nReq + 1
    /\ lastReq' = Request("action", sid, action)
    /\ UNCHANGED <<modules, backend, store, nextSession, nextItem, nCalls, lastResp>>

\* A model response for the second request: a round of the tool loop on the
\* shared state, or the end of the loop, the response and the history.
SecondReplies(sid, response, image) ==
    /\ req[sid].other # <<>>
    /\ LET o == req[sid].other[1]
           run == RunCalls(o.ctx, sessions[sid], response.calls, o.intent, nextItem)
           b == buildResponse(response, o.ctx, sessions[sid])
       IN  IF o.pc = "model" /\ o.iterations < maxIterations /\ response.calls # <<>>
           THEN /\ sessions' = [sessions EXCEPT ![sid] = run.state]
                /\ req' = [req EXCEPT ![sid].other =
                            <<[o EXCEPT !.ctx = run.ctx, !.iterations = @ + 1]>>]
                /\ nextItem' = run.uuid
                /\ nCalls' = nCalls + Len(response.calls)
                /\ UNCHANGED lastResp
           ELSE IF /\ o.pc = "model" /\ backend = "google"
                   /\ parseStructuredOutput(getFinalTextFromResponse(response)) = <<>>
           THEN /\ req' = [req EXCEPT ![sid].other = <<[o EXCEPT !.pc = "final"]>>]
                /\ UNCHANGED <<sessions, nextItem, nCalls, lastResp>>
           ELSE /\ sessions' = [sessions EXCEPT ![sid] =
                        [b.state EXCEPT
                            !.pendingChoices = normalizePendingChoices(b.response.choices),
                            !.history = pushHistory(
                                          pushHistory(@, [role |-> "user",
                                                          parts |-> Str(o.action)]),
                                          [role |-> "model", parts |-> b.response.storyText])]]
                /\ req' = [req EXCEPT ![sid].other = <<>>]
                /\ lastResp' = Response("action", sid, 200,
                                        ActionBody(sessions'[sid], b.response,
                                                   IF b.response.imagePrompt # <<>>
                                                   THEN image ELSE <<>>))
                /\ UNCHANGED <<nextItem, nCalls>>
    /\ UNCHANGED <<modules, backend, store, nextSession, nReq, lastReq>>

----------------------------------------------------------------------------
(* What the environment sends: tool calls and texts of the model backend,  *)
(* payloads of the client.                                                 *)

ToolCall(name, args) == [name |-> name, args |-> args]

ModelResponse(calls, text) == [calls |-> calls, text |-> text]

Json(story, choices, extraKeys) ==
    [story_text |-> story, choices |-> choices, extraKeys |-> extraKeys]

NoText == Text(EmptyStr, <<>>)

JsonText == Text(Str("{json}"), <<Json(<<Str("Story")>>, <<"A", "B", "C">>, FALSE)>>)

JsonFourText == Text(Str("{json}"), <<Json(<<Str("Story")>>, <<"A", "B", "C", "D">>, FALSE)>>)

TwoItemsText == Text(<<Line("", "Story"), Line("1.", "A"), Line("2)", "B")>>, <<>>)

EngineTexts == {NoText, JsonText}

HurtCall == ToolCall("update_player_stats", [hp |-> -120, reason |-> "hit"])

MadCall == ToolCall("update_player_stats", [sanity |-> -120, reason |-> "fear"])

HealCall == ToolCall("update_player_stats", [hp |-> 130, sanity |-> 130, reason |-> "rest"])

EndCall ==
    ToolCall("trigger_game_over", [endingType |-> "death_am", deathDescription |-> " AM wins "])

BadEndCall == ToolCall("trigger_game_over", [endingType |-> "death_am"])

SceneCall ==
    ToolCall("generate_scene_image",
             [location |-> "metal_capsule", materials |-> <<"metal", "rust">>,
              lighting |-> "dim_red", atmosphere |-> "claustrophobic",
              visualDescription |-> "a capsule"])

TagCall == ToolCall("add_tag", [tag |-> "bleeding", reason |-> "cut"])

UnknownCall == ToolCall("fly_away", [reason |-> "none"])

\* The string fields each tool declaration lists as required
RequiredStrings ==
    [update_player_stats |-> {"reason"},
     inventory_action |-> {"action", "itemName", "reason"},
     add_tag |-> {"tag", "reason"},
     remove_tag |-> {"tag", "reason"},
     trigger_game_over |-> {"endingType", "deathDescription"},
     generate_scene_image |-> {"location", "lighting", "atmosphere", "visualDescription"}]

EngineCalls == {HurtCall, MadCall, HealCall, EndCall, BadEndCall, SceneCall}

EngineResponses ==
    {ModelResponse(<<>>, t) : t \in EngineTexts}
    \cup {ModelResponse(<<c>>, NoText) : c \in EngineCalls}
    \cup {ModelResponse(<<HurtCall, EndCall>>, NoText), ModelResponse(<<MadCall, HurtCall>>, NoText)}

EngineIntents == {"unknown"}

PlayerActions == {"", "look"}

Images == {<<>>, <<"url">>}

Statuses == {429, 500}

\* Values of Math.random(), in hundredths
Rolls == {0, 30, 50, 70, 99}

SessionIds == 1..MaxSessions

----------------------------------------------------------------------------
(* The API key pool (utils/keyPool.ts) over config.apiKeys.                *)

\* GEMINI_API_KEYS.split(",").map(trim).filter(Boolean), by its graph on the
\* values of the variable the model uses: the list is not de-duplicated.
resolveApiKeys ==
    "key-a"               :> <<"key-a">> @@
    "key-a,key-b"         :> <<"key-a", "key-b">> @@
    "key-a,,key-b"        :> <<"key-a", "key-b">> @@
    "key-a, key-a"        :> <<"key-a", "key-a">>

DEFAULT_COOLDOWN_MS == 35000

\* The entries initPool leaves in the pool: a pool that has entries is kept
initPool(p, keys) ==
    IF Len(p) > 0 THEN p
    ELSE [i \in 1..Len(keys) |-> [key |-> keys[i], cooldownUntil |-> 0, dead |-> FALSE]]

\* Offsets from the cursor whose entry is live and off cooldown at time t
Usable(p, c, t) ==
    {i \in 0..(Len(p) - 1) :
        LET entry == p[((c + i) % Len(p)) + 1]
        IN  ~entry.dead /\ entry.cooldownUntil <= t}

\* Indices (from 0) of the entries that are not dead
Live(p) == {i \in 0..(Len(p) - 1) : ~p[i + 1].dead}

\* The first live entry among those whose cooldown ends earliest
Earliest(p) ==
    CHOOSE i \in Live(p) :
        \A j \in Live(p) :
            \/ p[j + 1].cooldownUntil > p[i + 1].cooldownUntil
            \/ p[j + 1].cooldownUntil = p[i + 1].cooldownUntil /\ i <= j

\* getNextKey on an initialised pool: the key it returns and the cursor it
\* leaves, or the throw when no entry is live.
getNextKey(p, c, t) ==
    IF Len(p) = 0 THEN [threw |-> TRUE]
    ELSE IF Usable(p, c, t) # {}
    THEN LET i   == CHOOSE i \in Usable(p, c, t) : \A j \in Usable(p, c, t) : i <= j
             idx == (c + i) % Len(p)
         IN  [threw |-> FALSE, key |-> p[idx + 1].key, cursor |-> (idx + 1) % Len(p)]
    ELSE IF Live(p) = {} THEN [threw |-> TRUE]
    ELSE [threw |-> FALSE, key |-> p[Earliest(p) + 1].key,
          cursor |-> (Earliest(p) + 1) % Len(p)]

\* pool.find(k => k.key === key): the first entry that holds the key
Find(p, key) ==
    LET holding == {i \in 1..Len(p) : p[i].key = key}
    IN  IF holding = {} THEN <<>>
        ELSE <<CHOOSE i \in holding : \A j \in holding : i <= j>>

markKeyRateLimited(p, key, t, cooldownMs) ==
    LET cooldown == IF cooldownMs = <<>> THEN DEFAULT_COOLDOWN_MS ELSE cooldownMs[1]
        entry    == Find(p, key)
    IN  IF entry = <<>> THEN p
        ELSE [p EXCEPT ![entry[1]].cooldownUntil = t + cooldown]

markKeyDead(p, key) ==
    LET entry == Find(p, key)
    IN  IF entry # <<>> /\ ~p[entry[1]].dead
        THEN [p EXCEPT ![entry[1]].dead = TRUE]
        ELSE p

\* The strings that are API keys, and the callers the model follows
ApiKeyNames == {"key-a", "key-b"}

CallerIds == 1..MaxCallers

\* A caller that is not in getOrchestratorCachedContent
Outside == [pc |-> "idle", key |-> "", promise |-> 0, config |-> <<>>]

\* The module as it is loaded, context caching left enabled
InitCache ==
    /\ contextCacheEnabled = TRUE
    /\ orchestratorCacheByKey = [key \in ApiKeyNames |-> <<>>]
    /\ orchestratorCacheInFlight = [key \in ApiKeyNames |-> <<>>]
    /\ cacheDisabledForKey = {}
    /\ creations = <<>>
    /\ callers = [c \in CallerIds |-> Outside]

\* No call of withRetry yet
NoRetry ==
    [pc |-> "idle", maxRetries |-> 0, apiKey |-> <<>>, attempt |-> 0, calls |-> 0,
     result |-> <<>>, error |-> <<>>, wake |-> 0]

\* The module as it is loaded: no entry yet, the cursor at the first one
InitModules ==
    /\ apiKeys = resolveApiKeys["key-a,,key-b"]
    /\ pool = <<>>
    /\ cursor = 0
    /\ now = 0
    /\ retry = NoRetry
    /\ InitCache

\* A caller asks for a key
GetNextKey ==
    LET p == initPool(pool, apiKeys)
        r == getNextKey(p, cursor, now)
    IN  /\ pool' = p
        /\ cursor' = IF r.threw THEN cursor ELSE r.cursor
        /\ UNCHANGED <<apiKeys, now, retry>>
        /\ UNCHANGED <<backend, sessions, store, nextSession, nextItem, req, nReq, nCalls,
                       lastReq, lastResp, cacheVars>>

\* A caller reports the key it used as rate limited
MarkKeyRateLimited(key, cooldownMs) ==
    /\ pool' = markKeyRateLimited(initPool(pool, apiKeys), key, now, cooldownMs)
    /\ UNCHANGED <<apiKeys, cursor, now, retry>>
    /\ UNCHANGED <<backend, sessions, store, nextSession, nextItem, req, nReq, nCalls,
                   lastReq, lastResp, cacheVars>>

\* A caller reports the key it used as invalid
MarkKeyDead(key) ==
    /\ pool' = markKeyDead(initPool(pool, apiKeys), key)
    /\ UNCHANGED <<apiKeys, cursor, now, retry>>
    /\ UNCHANGED <<backend, sessions, store, nextSession, nextItem, req, nReq, nCalls,
                   lastReq, lastResp, cacheVars>>

\* Time passes
Elapse(ms) ==
    /\ now + ms <= MaxClock
    /\ now' = now + ms
    /\ UNCHANGED <<apiKeys, pool, cursor, retry>>
    /\ UNCHANGED <<backend, sessions, store, nextSession, nextItem, req, nReq, nCalls,
                   lastReq, lastResp, cacheVars>>

----------------------------------------------------------------------------
(* Retry with backoff (utils/retry.ts): one call of withRetry, suspended   *)
(* at its awaits.                                                          *)

\* msg.match(/retry in ([\d.]+)s/i), in milliseconds, on the messages the
\* model draws from; no entry where the pattern does not match
RetryDelays ==
    "Quota exceeded. Please retry in 5s." :> 5000 @@
    "got status: 429 Too Many Requests, retry in 90s" :> 90000

extractRetryDelay(error) ==
    IF error.message \in DOMAIN RetryDelays THEN <<RetryDelays[error.message]>> ELSE <<>>

\* The wait is capped
MaxWaitMs == 60000

\* A retry that is tried on any error while attempts are left
RethrowsAtTheEndOnly(error, attempt, most) == attempt = most

\* The test of the catch block: the error goes to the caller
Rethrows(error, attempt, most) == ~isRateLimitError(error) \/ attempt = most

UnchangedServer ==
    UNCHANGED <<backend, sessions, store, nextSession, nextItem, req, nReq, nCalls,
                lastReq, lastResp, cacheVars>>

\* withRetry(fn, {maxRetries, apiKey}) is called: it calls fn at once
WithRetry(most, apiKey) ==
    /\ retry.pc \in {"idle", "returned", "threw"}
    /\ retry' = [pc |-> "calling", maxRetries |-> most, apiKey |-> apiKey, attempt |-> 0,
                 calls |-> 1, result |-> <<>>, error |-> <<>>, wake |-> 0]
    /\ UNCHANGED <<apiKeys, pool, cursor, now>>
    /\ UnchangedServer

\* fn() resolves: withRetry returns the value
FnResolves(value) ==
    /\ retry.pc = "calling"
    /\ retry' = [retry EXCEPT !.pc = "returned", !.result = <<value>>]
    /\ UNCHANGED <<apiKeys, pool, cursor, now>>
    /\ UnchangedServer

\* fn() rejects: withRetry rethrows, or marks the key and sleeps
FnRejects(error) ==
    /\ retry.pc = "calling"
    /\ IF Rethrows(error, retry.attempt, retry.maxRetries)
       THEN /\ retry' = [retry EXCEPT !.pc = "threw", !.error = <<error>>]
            /\ UNCHANGED pool
       ELSE LET serverDelay == extractRetryDelay(error)
                cooldown    == IF serverDelay = <<>> THEN 35000 ELSE serverDelay[1]
                waitMs      == Min(cooldown, MaxWaitMs)
            IN  /\ pool' = IF retry.apiKey # <<>>
                           THEN markKeyRateLimited(initPool(pool, apiKeys), retry.apiKey[1],
                                                   now, <<cooldown>>)
                           ELSE pool
                /\ retry' = [retry EXCEPT !.pc = "sleeping", !.wake = now + waitMs]
    /\ UNCHANGED <<apiKeys, cursor, now>>
    /\ UnchangedServer

\* The timer of sleep(waitMs) fires: the loop calls fn again
SleepEnds ==
    /\ retry.pc = "sleeping"
    /\ now >= retry.wake
    /\ retry' = [retry EXCEPT !.pc = "calling", !.attempt = @ + 1, !.calls = @ + 1]
    /\ UNCHANGED <<apiKeys, pool, cursor, now>>
    /\ UnchangedServer

----------------------------------------------------------------------------
(* The orchestrator's context cache (orchestratorService.ts):              *)
(* getOrchestratorCachedContent, suspended at its awaits, and the config   *)
(* buildGeminiConfig makes of its result.                                  *)

\* A cache entry: its name, and expiresAt if the server named a time
CacheEntry(name, expiresAt) == [name |-> name, expiresAt |-> expiresAt]

\* The margin isCacheValid keeps before the expiry
ExpiryMarginMs == 15000

isCacheValid(entry, t) ==
    IF entry.expiresAt = <<>> THEN TRUE
    ELSE t + ExpiryMarginMs < entry.expiresAt[1]

\* A lookup that finds no creation under way
NoneInFlight(apiKey) == <<>>

\* orchestratorCacheInFlight.get(apiKey)
InFlightFor(apiKey) == orchestratorCacheInFlight[apiKey]

\* The config of a model call: the cache's name, else the system prompt
buildGeminiConfig(cachedContent) ==
    IF cachedContent # <<>>
    THEN [cachedContent |-> cachedContent, systemInstruction |-> <<>>]
    ELSE [cachedContent |-> <<>>, systemInstruction |-> <<"ORCHESTRATOR_SYSTEM_PROMPT">>]

\* The caller has its answer
Answered(apiKey, cachedContent) ==
    [pc |-> "done", key |-> apiKey, promise |-> 0, config |-> <<buildGeminiConfig(cachedContent)>>]

\* entry?.name ?? null, of the entry a creation promise resolved with
NameOf(promise) ==
    IF creations[promise].entry = <<>> THEN <<>> ELSE <<creations[promise].entry[1].name>>

\* A model call of a turn builds its config: getOrchestratorCachedContent
\* runs to its first await, or to its return.
GetCachedContent(c, apiKey) ==
    /\ callers[c].pc \in {"idle", "done"}
    /\ IF ~contextCacheEnabled \/ apiKey = "" \/ apiKey \in cacheDisabledForKey
       THEN /\ callers' = [callers EXCEPT ![c] = Answered(apiKey, <<>>)]
            /\ UNCHANGED <<orchestratorCacheInFlight, creations>>
       ELSE LET existing == orchestratorCacheByKey[apiKey]
                inFlight == InFlightFor(apiKey)
            IN  IF existing # <<>> /\ isCacheValid(existing[1], now)
                THEN /\ callers' = [callers EXCEPT ![c] = Answered(apiKey, <<existing[1].name>>)]
                     /\ UNCHANGED <<orchestratorCacheInFlight, creations>>
                ELSE IF inFlight # <<>>
                THEN /\ callers' = [callers EXCEPT ![c] =
                            [pc |-> "waiting", key |-> apiKey, promise |-> inFlight[1],
                             config |-> <<>>]]
                     /\ UNCHANGED <<orchestratorCacheInFlight, creations>>
                ELSE /\ Len(creations) < MaxCreations
                     /\ creations' = Append(creations,
                            [key |-> apiKey, state |-> "pending", entry |-> <<>>])
                     /\ orchestratorCacheInFlight' =
                            [orchestratorCacheInFlight EXCEPT ![apiKey] = <<Len(creations) + 1>>]
                     /\ callers' = [callers EXCEPT ![c] =
                            [pc |-> "creating", key |-> apiKey, promise |-> Len(creations) + 1,
                             config |-> <<>>]]
    /\ UNCHANGED <<contextCacheEnabled, orchestratorCacheByKey, cacheDisabledForKey>>
    /\ UNCHANGED <<apiKeys, pool, cursor, now, retry>>
    /\ UNCHANGED <<backend, sessions, store, nextSession, nextItem, req, nReq, nCalls,
                   lastReq, lastResp>>

\* ai.caches.create settles: with a cache (named or not, with or without an
\* expiry so many milliseconds ahead), or with an error.  The creation
\* promise stores the entry, or disables the cache for the key.
CreateSettles(promise, cached) ==
    /\ creations[promise].state = "pending"
    /\ LET apiKey == creations[promise].key
       IN  IF cached.ok /\ cached.name
           THEN LET entry == CacheEntry(promise,
                                 IF cached.expireTime = <<>> THEN <<>>
                                 ELSE <<now + cached.expireTime[1]>>)
                IN  /\ orchestratorCacheByKey' =
                            [orchestratorCacheByKey EXCEPT ![apiKey] = <<entry>>]
                    /\ creations' = [creations EXCEPT ![promise] =
                            [key |-> apiKey, state |-> "settled", entry |-> <<entry>>]]
                    /\ UNCHANGED cacheDisabledForKey
           ELSE /\ cacheDisabledForKey' = cacheDisabledForKey \cup {apiKey}
                /\ creations' = [creations EXCEPT ![promise].state = "settled"]
                /\ UNCHANGED orchestratorCacheByKey
    /\ UNCHANGED <<contextCacheEnabled, orchestratorCacheInFlight, callers>>
    /\ UNCHANGED <<apiKeys, pool, cursor, now, retry>>
    /\ UNCHANGED <<backend, sessions, store, nextSession, nextItem, req, nReq, nCalls,
                   lastReq, lastResp>>

\* A caller suspended at the promise goes on: it returns the entry's name,
\* and the caller that started the creation first deletes the promise from
\* the map.
Resumes(c) ==
    /\ callers[c].pc \in {"creating", "waiting"}
    /\ creations[callers[c].promise].state = "settled"
    /\ callers' = [callers EXCEPT ![c] = Answered(callers[c].key, NameOf(callers[c].promise))]
    /\ orchestratorCacheInFlight' =
            IF callers[c].pc = "creating"
            THEN [orchestratorCacheInFlight EXCEPT ![callers[c].key] = <<>>]
            ELSE orchestratorCacheInFlight
    /\ UNCHANGED <<contextCacheEnabled, orchestratorCacheByKey, cacheDisabledForKey, creations>>
    /\ UNCHANGED <<apiKeys, pool, cursor, now, retry>>
    /\ UNCHANGED <<backend, sessions, store, nextSession, nextItem, req, nReq, nCalls,
                   lastReq, lastResp>>

----------------------------------------------------------------------------
(* The server: any client requests, any answers of the collaborators.      *)

Init ==
    /\ backend \in {"vertex", "google", "none"}
    /\ InitModules
    /\ sessions = <<>>
    /\ store = {}
    /\ nextSession = 0
    /\ nextItem = 0
    /\ req = <<>>
    /\ nReq = 0
    /\ nCalls = 0
    /\ lastReq = Request("none", NoSession, "")
    /\ lastResp = NoResponse

Next ==
    \/ \E image \in Images : Start(image)
    \/ \E old \in {NoSession} \cup SessionIds, image \in Images : Restart(old, image)
    \/ \E sid \in {NoSession} \cup SessionIds, action \in PlayerActions :
            \E roll \in Rolls : ActionRequest(sid, action, roll)
    \/ \E sid \in DOMAIN sessions, intent \in EngineIntents : RouterDone(sid, intent)
    \/ \E sid \in DOMAIN sessions, response \in EngineResponses :
            /\ nCalls + Len(response.calls) <= MaxToolCalls
            /\ ModelReplies(sid, response)
    \/ \E sid \in DOMAIN sessions, text \in EngineTexts :
            FinalReplies(sid, ModelResponse(<<>>, text))
    \/ \E sid \in DOMAIN sessions, status \in Statuses : ModelFails(sid, status)
    \/ \E sid \in DOMAIN sessions, image \in Images : ImageDone(sid, image)

Spec == Init /\ [][Next]_vars

----------------------------------------------------------------------------------------------------------------------------------------
(* The tool executor under one session: the model is free in the tool it   *)
(* calls and in its arguments, one call per response.  One specification   *)
(* for the stat updates, one for the tags.                                 *)

StatCalls ==
    {ToolCall("update_player_stats", a) :
        a \in {[hp |-> -120, reason |-> "hit"],
               [hp |-> 150, sanity |-> 7, reason |-> "rest"],
               [hp |-> -3, sanity |-> -3, strength |-> -2, reason |-> "tired"],
               [sanity |-> -120, intelligence |-> 4, dexterity |-> 3]}}
    \cup {UnknownCall}

TagCalls ==
    {ToolCall("add_tag", [tag |-> t, reason |-> "story"]) :
        t \in {"bleeding", " bleeding ", "cursed", "  "}}
    \cup {ToolCall("remove_tag", [tag |-> t, reason |-> "story"]) :
        t \in {"bleeding", "cursed"}}
    \cup {ToolCall("remove_tag", [reason |-> "story"])}

ToolIntents == {"combat", "unknown"}

InitTools ==
    /\ Init
    /\ backend = "vertex"

\* One turn after another of session 1, the router answering with one of
\* the intents and the model with one call of the given set or with its
\* final text.
ToolTurns(calls, intents) ==
    \/ Start(<<"url">>)
    \/ \E roll \in Rolls : ActionRequest(1, "look", roll)
    \/ \E sid \in DOMAIN sessions, intent \in intents : RouterDone(sid, intent)
    \/ \E sid \in DOMAIN sessions, call \in calls :
            /\ nCalls < MaxToolSteps
            /\ ModelReplies(sid, ModelResponse(<<call>>, NoText))
    \/ \E sid \in DOMAIN sessions : ModelReplies(sid, ModelResponse(<<>>, JsonText))

NextStats == ToolTurns(StatCalls, ToolIntents)

SpecStats == InitTools /\ [][NextStats]_vars

\* Tags do not depend on the intent.
NextTags == ToolTurns(TagCalls, {"unknown"})

SpecTags == InitTools /\ [][NextTags]_vars

\* The inventory: items whose names differ in case only, and a removal of
\* a name no item has.
InventoryCalls ==
    {ToolCall("inventory_action", [action |-> "add", itemName |-> n, reason |-> "found"]) :
        n \in {"Key", "KEY", "Lamp"}}
    \cup {ToolCall("inventory_action", [action |-> "remove", itemName |-> n, reason |-> "used"]) :
        n \in {" Key", "Rope"}}

NextInventory == ToolTurns(InventoryCalls, {"unknown"})

SpecInventory == InitTools /\ [][NextInventory]_vars

SceneArgs(location, materials) ==
    [location |-> location, materials |-> materials, lighting |-> "dim_red",
     atmosphere |-> "claustrophobic", visualDescription |-> "a room"]

SceneCalls ==
    {ToolCall("generate_scene_image", a) :
        a \in {SceneArgs("capsule", <<"metal", "rust">>),
               SceneArgs(" capsule ", <<"rust", "  ">>),
               SceneArgs("capsule", <<"flesh">>),
               SceneArgs("corridor", <<"metal">>),
               SceneArgs("corridor", <<"  ">>),
               [location |-> "corridor", lighting |-> "dim_red"]}}

\* The scene does not depend on the intent.
NextScene == ToolTurns(SceneCalls, {"unknown"})

SpecScene == InitTools /\ [][NextScene]_vars

----------------------------------------------------------------------------
(* The final extraction under one session: the model calls no tool and is  *)
(* free in its text.                                                       *)

FourNumberedText ==
    Text(<<Line("", "Story"), Line("1.", "A"), Line("2.", "B"), Line("3.", "C"),
           Line("1)", "D")>>, <<>>)

BulletsText ==
    Text(<<Line("", "Story"), Line("1.", "A"), Line("-", "B"), Line("*bullet", "C"),
           Line("-", "D")>>, <<>>)

DuplicateItemsText ==
    Text(<<Line("", "Story"), Line("1.", "Run"), Line("2.", "[Run]"), Line("3:", " Run"),
           Line("-", "Run")>>, <<>>)

ListOnlyText == Text(<<Line("1.", "A"), Line("2.", "[]"), Line("FW1.", "B")>>, <<>>)

BlankText == Text(<<Line("", "  "), Line("", "[SYSTEM]")>>, <<>>)

JsonTwoText == Text(Str("{json}"), <<Json(<<Str("Story")>>, <<"A", "B">>, FALSE)>>)

JsonObjectChoiceText ==
    Text(Str("{json}"), <<Json(<<Str("Story")>>, <<"A", ObjectChoice, "C">>, FALSE)>>)

JsonBlankStoryText ==
    Text(Str("{json}"), <<Json(<<Str("  ")>>, <<"A", "B", "C">>, FALSE)>>)

JsonExtraKeyText == Text(Str("{json}"), <<Json(<<Str("Story")>>, <<"A", "B", "C">>, TRUE)>>)

AnyTexts ==
    {NoText, JsonText, JsonFourText, JsonTwoText, JsonObjectChoiceText, JsonBlankStoryText,
     JsonExtraKeyText, TwoItemsText, FourNumberedText, BulletsText, DuplicateItemsText,
     ListOnlyText, BlankText}

InitText ==
    /\ Init
    /\ backend # "none"

NextText ==
    \/ Start(<<"url">>)
    \/ \E roll \in Rolls : ActionRequest(1, "look", roll)
    \/ \E sid \in DOMAIN sessions : RouterDone(sid, "unknown")
    \/ \E sid \in DOMAIN sessions, text \in AnyTexts :
            ModelReplies(sid, ModelResponse(<<>>, text))
    \/ \E sid \in DOMAIN sessions, text \in AnyTexts :
            FinalReplies(sid, ModelResponse(<<>>, text))

SpecText == InitText /\ [][NextText]_vars

----------------------------------------------------------------------------
(* The tool loop against a model that requests a tool call in every        *)
(* response of the loop and never fails.                                   *)

AdversarialResponses == {ModelResponse(<<SceneCall>>, t) : t \in {NoText, JsonText}}

InitAdversarial ==
    /\ Init
    /\ backend # "none"

NextAdversarial ==
    \/ Start(<<"url">>)
    \/ \E roll \in Rolls : ActionRequest(1, "look", roll)
    \/ \E sid \in DOMAIN sessions : RouterDone(sid, "unknown")
    \/ \E sid \in DOMAIN sessions, response \in AdversarialResponses :
            ModelReplies(sid, response)
    \/ \E sid \in DOMAIN sessions, text \in {NoText, JsonText} :
            FinalReplies(sid, ModelResponse(<<>>, text))
    \/ \E sid \in DOMAIN sessions, image \in Images : ImageDone(sid, image)

SpecAdversarial == InitAdversarial /\ [][NextAdversarial]_vars

----------------------------------------------------------------------------
(* The tool loop under one session: each model response holds one or two   *)
(* function calls, some of which fail.                                     *)

RemoveAbsentTagCall == ToolCall("remove_tag", [tag |-> "cursed", reason |-> "story"])

AddKeyCall ==
    ToolCall("inventory_action", [action |-> "add", itemName |-> " Key", reason |-> "found"])

RemoveKeyCall ==
    ToolCall("inventory_action", [action |-> "remove", itemName |-> "KEY", reason |-> "used"])

LoopCalls == {UnknownCall, TagCall, RemoveAbsentTagCall, AddKeyCall, RemoveKeyCall}

LoopResponses ==
    {ModelResponse(<<c>>, NoText) : c \in LoopCalls}
    \cup {ModelResponse(<<c, d>>, NoText) : c, d \in LoopCalls}

NextLoop ==
    \/ Start(<<"url">>)
    \/ \E roll \in Rolls : ActionRequest(1, "look", roll)
    \/ \E sid \in DOMAIN sessions : RouterDone(sid, "unknown")
    \/ \E sid \in DOMAIN sessions, response \in LoopResponses :
            /\ nCalls + Len(response.calls) <= MaxToolSteps
            /\ ModelReplies(sid, response)
    \/ \E sid \in DOMAIN sessions : ModelReplies(sid, ModelResponse(<<>>, JsonText))

SpecLoop == InitTools /\ [][NextLoop]_vars

----------------------------------------------------------------------------
(* The choice check under one session whose pending choices carry checks   *)
(* (ChoiceOption.check of models/types.ts), for any stats and any roll.    *)

CheckedChoice(text, stat, required) ==
    [text |-> text, check |-> [stat |-> stat, required |-> required]]

PendingWithChecks ==
    {<<CheckedChoice(" Force ", "strength", required), CheckedChoice("Wait", "dexterity", 7),
       CheckedChoice("Force", "intelligence", 0)>> : required \in {80, 50, 0, -5}}
    \cup {<<[text |-> "Force"], CheckedChoice("Force", "strength", 7), [text |-> "Wait"]>>}

CheckStats ==
    {[DEFAULT_STATS EXCEPT !.strength = strength, !.dexterity = dexterity] :
        strength \in {-3, 0, 40, 100}, dexterity \in {5, 9}}

InitCheck ==
    /\ backend = "vertex"
    /\ InitModules
    /\ \E stats \in CheckStats, pending \in PendingWithChecks :
            sessions = <<[NewGameState EXCEPT !.stats = stats, !.pendingChoices = pending]>>
    /\ store = {1}
    /\ nextSession = 1
    /\ nextItem = 0
    /\ req = <<Idle>>
    /\ nReq = 0
    /\ nCalls = 0
    /\ lastReq = Request("none", NoSession, "")
    /\ lastResp = NoResponse

NextCheck ==
    \/ \E action \in {"Force", " Force ", "Wait", "look"}, roll \in Rolls :
            ActionRequest(1, action, roll)
    \/ RouterDone(1, "unknown")
    \/ ModelReplies(1, ModelResponse(<<>>, JsonText))

SpecCheck == InitCheck /\ [][NextCheck]_vars

----------------------------------------------------------------------------
(* A long game: one session that has played 10, 11 or 12 turns, so that    *)
(* its history is at the cap or about to reach it.                         *)

PastActions ==
    <<"a1", "a2", "a3", "a4", "a5", "a6", "a7", "a8", "a9", "a10", "a11", "a12">>

PastStories ==
    <<"s1", "s2", "s3", "s4", "s5", "s6", "s7", "s8", "s9", "s10", "s11", "s12">>

\* The history after n completed turns
RECURSIVE HistoryAfter(_)
HistoryAfter(n) ==
    IF n = 0 THEN NewGameState.history
    ELSE pushHistory(pushHistory(HistoryAfter(n - 1),
                                 [role |-> "user", parts |-> Str(PastActions[n])]),
                     [role |-> "model", parts |-> Str(PastStories[n])])

PlayedTurns == {10, 11, 12}

InitHistory ==
    /\ backend \in {"vertex", "google"}
    /\ InitModules
    /\ \E n \in PlayedTurns :
            sessions = <<[NewGameState EXCEPT !.history = HistoryAfter(n), !.turn = n,
                                             !.pendingChoices =
                                                normalizePendingChoices(defaults)]>>
    /\ store = {1}
    /\ nextSession = 1
    /\ nextItem = 0
    /\ req = <<Idle>>
    /\ nReq = 0
    /\ nCalls = 0
    /\ lastReq = Request("none", NoSession, "")
    /\ lastResp = NoResponse

NextHistory ==
    \/ \E action \in {"look", "wait"}, roll \in Rolls : ActionRequest(1, action, roll)
    \/ RouterDone(1, "unknown")
    \/ \E text \in {JsonText, FourNumberedText} : ModelReplies(1, ModelResponse(<<>>, text))
    \/ \E text \in {JsonText, NoText} : FinalReplies(1, ModelResponse(<<>>, text))
    \/ \E status \in Statuses : ModelFails(1, status)

SpecHistory == InitHistory /\ [][NextHistory]_vars

----------------------------------------------------------------------------
(* Two sessions: one is stored already, a second one is started or takes   *)
(* the place of the first, and their turns interleave at the awaits.       *)

InitPair ==
    /\ backend = "vertex"
    /\ InitModules
    /\ sessions = <<NewGameState>>
    /\ store = {1}
    /\ nextSession = 1
    /\ nextItem = 0
    /\ req = <<Idle>>
    /\ nReq = 0
    /\ nCalls = 0
    /\ lastReq = Request("none", NoSession, "")
    /\ lastResp = NoResponse

PairCalls == {HurtCall, TagCall, AddKeyCall, SceneCall}

NextPair ==
    \/ Start(<<"url">>)
    \/ \E old \in DOMAIN sessions : Restart(old, <<"url">>)
    \/ \E sid \in SessionIds, roll \in Rolls : ActionRequest(sid, "look", roll)
    \/ \E sid \in DOMAIN sessions : RouterDone(sid, "unknown")
    \/ \E sid \in DOMAIN sessions, call \in PairCalls :
            /\ nCalls < MaxToolCalls
            /\ ModelReplies(sid, ModelResponse(<<call>>, NoText))
    \/ \E sid \in DOMAIN sessions : ModelReplies(sid, ModelResponse(<<>>, JsonText))
    \/ \E sid \in DOMAIN sessions : ModelFails(sid, 500)
    \/ \E sid \in DOMAIN sessions : ImageDone(sid, <<"url">>)

SpecPair == InitPair /\ [][NextPair]_vars

----------------------------------------------------------------------------
(* Failing model calls: the errors generateContent is rejected with, and   *)
(* the statuses the Vertex AI endpoint answers with.                       *)

ModelErrors ==
    {ModelError(429, "Too Many Requests"),
     ModelError(0, "got status: 429 Too Many Requests"),
     ModelError(0, "RESOURCE_EXHAUSTED: quota exceeded"),
     ModelError(400, "API key not valid. Please pass a valid API key."),
     ModelError(0, "socket hang up")}

InitRetry ==
    /\ Init
    /\ backend \in {"google", "vertex"}

NextRetry ==
    \/ Start(<<"url">>)
    \/ \E roll \in Rolls : ActionRequest(1, "look", roll)
    \/ \E sid \in DOMAIN sessions : RouterDone(sid, "unknown")
    \/ \E sid \in DOMAIN sessions :
            /\ nCalls < MaxToolCalls
            /\ ModelReplies(sid, ModelResponse(<<TagCall>>, NoText))
    \/ \E sid \in DOMAIN sessions, text \in {JsonText, NoText} :
            ModelReplies(sid, ModelResponse(<<>>, text))
    \/ \E sid \in DOMAIN sessions : FinalReplies(sid, ModelResponse(<<>>, JsonText))
    \/ \E sid \in DOMAIN sessions, error \in ModelErrors : GenerateFails(sid, error)
    \/ \E sid \in DOMAIN sessions, status \in Statuses : VertexFails(sid, status)

SpecRetry == InitRetry /\ [][NextRetry]_vars

----------------------------------------------------------------------------
(* Turns with and without a scene image: the model asks for scenes, some   *)
(* of them malformed, and the image backend answers with a URL or fails.   *)

ImageCalls ==
    {ToolCall("generate_scene_image", a) :
        a \in {SceneArgs("capsule", <<"metal">>),
               SceneArgs("corridor", <<"metal">>),
               SceneArgs("corridor", <<"  ">>)}}
    \cup {TagCall}

NextImage ==
    \/ Start(<<"url">>)
    \/ \E roll \in Rolls : ActionRequest(1, "look", roll)
    \/ \E sid \in DOMAIN sessions : RouterDone(sid, "unknown")
    \/ \E sid \in DOMAIN sessions, call \in ImageCalls :
            /\ nCalls < MaxToolSteps
            /\ ModelReplies(sid, ModelResponse(<<call>>, NoText))
    \/ \E sid \in DOMAIN sessions : ModelReplies(sid, ModelResponse(<<>>, JsonText))
    \/ \E sid \in DOMAIN sessions, image \in Images : ImageDone(sid, image)

SpecImage == InitTools /\ [][NextImage]_vars

----------------------------------------------------------------------------
(* Stat updates among calls of other tools that carry stat fields too.     *)

UpdateCalls ==
    {ToolCall("update_player_stats", a) :
        a \in {[hp |-> -10, sanity |-> 4, reason |-> "hit"],
               [hp |-> 10, strength |-> 1, reason |-> "rest"],
               [dexterity |-> -1]}}
    \cup {ToolCall("add_tag", [tag |-> "bleeding", reason |-> "cut", hp |-> -5]),
          ToolCall("fly_away", [hp |-> 50, intelligence |-> 2])}

NextUpdates == ToolTurns(UpdateCalls, ToolIntents)

SpecUpdates == InitTools /\ [][NextUpdates]_vars

----------------------------------------------------------------------------
(* The router: every kind of answer of its backend.                        *)

RouterArgs ==
    [intent : {Undefined, RawString("combat"), RawString("rest"), RawString("fly"),
               RawNumber(1)},
     confidence : {Undefined, RawNumber(-50), RawNumber(85), RawNumber(150),
                   Raw("nonfinite", "", 0), RawString("high")},
     suggestedDifficulty : {Undefined, RawString("deadly"), RawString("impossible")},
     emotionalTone : {Undefined, RawString("cunning"), RawNumber(3)}]

NoArgs ==
    [intent |-> Undefined, confidence |-> Undefined, suggestedDifficulty |-> Undefined,
     emotionalTone |-> Undefined]

RouterOutcomes ==
    {[kind |-> k, args |-> NoArgs] : k \in {"error", "nocall"}}
    \cup {[kind |-> "call", args |-> a] : a \in RouterArgs}

NextRouter ==
    \/ Start(<<"url">>)
    \/ \E roll \in Rolls : ActionRequest(1, "look", roll)
    \/ \E sid \in DOMAIN sessions, key \in BOOLEAN, outcome \in RouterOutcomes :
            RouterReplies(sid, key, outcome)
    \/ \E sid \in DOMAIN sessions, call \in {HurtCall, TagCall} :
            /\ nCalls < MaxToolCalls
            /\ ModelReplies(sid, ModelResponse(<<call>>, NoText))
    \/ \E sid \in DOMAIN sessions : ModelReplies(sid, ModelResponse(<<>>, JsonText))

SpecRouter == InitRetry /\ [][NextRouter]_vars

----------------------------------------------------------------------------
(* A cooperative game: the model offers a choice with a stat check in      *)
(* every final answer and the player submits the text of that choice.      *)
(* Every request is answered and the player keeps playing.                 *)

CheckedChoicesText ==
    Text(Str("{json}"), <<Json(<<Str("Story")>>, <<ObjectChoice, "Wait", "Look">>, FALSE)>>)

OfferCalls == {TagCall, AddKeyCall, RemoveKeyCall, RemoveAbsentTagCall, UnknownCall}

NextOffer ==
    \/ nextSession = 0 /\ Start(<<"url">>)
    \/ \E sid \in store, roll \in Rolls :
            ActionRequest(sid, ObjectChoices[ObjectChoice].text, roll)
    \/ \E sid \in DOMAIN sessions : RouterDone(sid, "unknown")
    \/ \E sid \in DOMAIN sessions, call \in OfferCalls :
            /\ nCalls < MaxToolCalls
            /\ ModelReplies(sid, ModelResponse(<<call>>, NoText))
    \/ \E sid \in DOMAIN sessions : ModelReplies(sid, ModelResponse(<<>>, CheckedChoicesText))
    \/ \E sid \in DOMAIN sessions : FinalReplies(sid, ModelResponse(<<>>, CheckedChoicesText))

SpecOffer == InitRetry /\ [][NextOffer]_vars

----------------------------------------------------------------------------
(* Two /action requests of one session that overlap.                       *)

OverlapCalls == {HurtCall, EndCall, TagCall, AddKeyCall, SceneCall}

NextOverlap ==
    \/ Start(<<"url">>)
    \/ \E roll \in Rolls : ActionRequest(1, "look", roll)
    \/ \E sid \in DOMAIN sessions : RouterDone(sid, "unknown")
    \/ \E sid \in DOMAIN sessions, call \in OverlapCalls :
            /\ nCalls < MaxToolCalls
            /\ ModelReplies(sid, ModelResponse(<<call>>, NoText))
    \/ \E sid \in DOMAIN sessions : ModelReplies(sid, ModelResponse(<<>>, JsonText))
    \/ \E sid \in DOMAIN sessions : ImageDone(sid, <<"url">>)
    \/ \E sid \in DOMAIN sessions, roll \in Rolls : SecondRequest(sid, "wait", roll, "unknown")
    \/ \E sid \in DOMAIN sessions, call \in OverlapCalls :
            /\ nCalls < MaxToolCalls
            /\ SecondReplies(sid, ModelResponse(<<call>>, NoText), <<"url">>)
    \/ \E sid \in DOMAIN sessions : SecondReplies(sid, ModelResponse(<<>>, JsonText), <<"url">>)

SpecOverlap == InitTools /\ [][NextOverlap]_vars

----------------------------------------------------------------------------
(* Turns in which the model ends the game and goes on calling tools.       *)

EndingCalls ==
    {EndCall, BadEndCall, TagCall, AddKeyCall,
     ToolCall("trigger_game_over", [endingType |-> "escape", deathDescription |-> "The void"]),
     ToolCall("update_player_stats", [sanity |-> -10, reason |-> "dread"])}

EndingResponses ==
    {ModelResponse(<<c>>, NoText) : c \in EndingCalls}
    \cup {ModelResponse(<<c, d>>, NoText) : c, d \in EndingCalls}

NextEnding ==
    \/ Start(<<"url">>)
    \/ \E roll \in Rolls : ActionRequest(1, "look", roll)
    \/ \E sid \in DOMAIN sessions : RouterDone(sid, "unknown")
    \/ \E sid \in DOMAIN sessions, response \in EndingResponses :
            /\ nCalls + Len(response.calls) <= MaxToolSteps
            /\ ModelReplies(sid, response)
    \/ \E sid \in DOMAIN sessions : ModelReplies(sid, ModelResponse(<<>>, JsonText))

SpecEnding == InitTools /\ [][NextEnding]_vars

----------------------------------------------------------------------------
(* The final extraction: texts that parse and texts that do not, after the *)
(* loop and as the answer to the re-ask, which may also carry a call.      *)

FinalTexts == {NoText, JsonText, JsonTwoText, TwoItemsText}

FinalResponses ==
    {ModelResponse(calls, text) : calls \in {<<>>, <<HurtCall>>}, text \in FinalTexts}

NextFinal ==
    \/ Start(<<"url">>)
    \/ \E roll \in Rolls : ActionRequest(1, "look", roll)
    \/ \E sid \in DOMAIN sessions : RouterDone(sid, "unknown")
    \/ \E sid \in DOMAIN sessions, text \in FinalTexts :
            /\ nCalls < MaxToolCalls
            /\ ModelReplies(sid, ModelResponse(<<TagCall>>, text))
    \/ \E sid \in DOMAIN sessions, text \in FinalTexts :
            ModelReplies(sid, ModelResponse(<<>>, text))
    \/ \E sid \in DOMAIN sessions, response \in FinalResponses : FinalReplies(sid, response)

SpecFinal == InitRetry /\ [][NextFinal]_vars

----------------------------------------------------------------------------
(* The image backends: disabled or enabled, with one or three keys in the  *)
(* pool, none or all of them dead already, and answers of every kind.      *)

StudioOutcomes ==
    {<<"image", "image", "image">>, <<"invalid", "image", "image">>,
     <<"invalid", "invalid", "invalid">>, <<"ratelimit", "image", "image">>,
     <<"error", "image", "image">>, <<"nodata", "image", "image">>}

ImageBackends ==
    {io \in [useVertexAI : BOOLEAN, vertex : {"image", "none"}, geminiApiKey : BOOLEAN,
             keys : {1, 3}, dead : {0, 1, 3}, cached : {<<>>, <<"signed-url">>},
             outcomes : StudioOutcomes] :
        /\ io.dead \in {0, io.keys}
        /\ ~io.useVertexAI => io.vertex = "none"
        /\ ~io.geminiApiKey => (io.keys = 1 /\ io.dead = 0
                                /\ io.outcomes = <<"image", "image", "image">>)}

\* The first words of the prompt the scene tool builds
PromptText(prompt) == prompt.prefix

NextBackends ==
    \/ \E io \in ImageBackends : Start(ImageOf(generateImage(INTRO_IMAGE_PROMPT, io)))
    \/ \E io \in ImageBackends, old \in DOMAIN sessions :
            Restart(old, ImageOf(generateImage(INTRO_IMAGE_PROMPT, io)))
    \/ \E roll \in Rolls : ActionRequest(1, "look", roll)
    \/ \E sid \in DOMAIN sessions : RouterDone(sid, "unknown")
    \/ \E sid \in DOMAIN sessions, call \in {SceneCall, TagCall} :
            /\ nCalls < MaxToolCalls
            /\ ModelReplies(sid, ModelResponse(<<call>>, NoText))
    \/ \E sid \in DOMAIN sessions : ModelReplies(sid, ModelResponse(<<>>, JsonText))
    \/ \E sid \in DOMAIN sessions, io \in ImageBackends :
            /\ req[sid].pc = "image"
            /\ ImageDone(sid, ImageOf(generateImage(
                                PromptText(req[sid].out[1].imagePrompt[1]), io)))

SpecBackends == InitTools /\ [][NextBackends]_vars

----------------------------------------------------------------------------
(* Properties. *)

Log(sid) == req[sid].ctx.toolCalls

CallsOf(log, toolName) == {i \in 1..Len(log) : log[i].toolName = toolName}

ActionAnswered(status) == lastResp.kind = "action" /\ lastResp.status = status

\* A string with a character that is not white space
NonBlank(text) == \E i \in 1..Len(text) : text[i].mark # "" \/ Trim(text[i].body) # ""

NoDuplicates(seq) == \A i, j \in 1..Len(seq) : seq[i] = seq[j] => i = j

Without(seq, x) == SelectSeq(seq, LAMBDA y : y # x)

GameOverIsLatched ==
    [][\A sid \in DOMAIN sessions :
            sessions[sid].isGameOver => sessions'[sid].isGameOver]_vars

\* A tool that changes the state ran after trigger_game_over had succeeded.
GameOverIsLatchedWitness ==
    \E sid \in DOMAIN sessions :
        /\ sessions[sid].isGameOver
        /\ Len(Log(sid)) = 2
        /\ Log(sid)[1].toolName = "trigger_game_over"
        /\ Log(sid)[1].result.success
        /\ Log(sid)[2].toolName = "update_player_stats"
        /\ Log(sid)[2].result.success

\* C3: a well-formed /action for a stored session whose isGameOver is true is
\* answered 409 and changes nothing: no session state, no request in flight
\* (so no router call, no model call), no tool invocation.
PostGameActionRejected ==
    [][(/\ nReq' = nReq + 1
        /\ lastReq'.kind = "action"
        /\ lastReq'.action # ""
        /\ lastReq'.sessionId \in store
        /\ sessions[lastReq'.sessionId].isGameOver)
       => (/\ lastResp'.status = 409
           /\ lastResp'.sessionId = lastReq'.sessionId
           /\ sessions' = sessions
           /\ req' = req
           /\ store' = store
           /\ nCalls' = nCalls
           /\ nextItem' = nextItem)]_vars

\* An /action was answered 409 for a session after a turn that ended the game.
PostGameActionRejectedWitness ==
    /\ ActionAnswered(409)
    /\ sessions[lastResp.sessionId].turn = 1
    /\ sessions[lastResp.sessionId].isGameOver
    /\ Len(sessions[lastResp.sessionId].history) = 3

SuccessfulTriggers(log) ==
    {i \in CallsOf(log, "trigger_game_over") : log[i].result.success}

Last(S) == CHOOSE i \in S : \A j \in S : j <= i

\* C4: when a turn completes with hp <= 0 or sanity <= 0, the state and the
\* response report game over with a description: the model's when
\* trigger_game_over succeeded in the turn, otherwise the hp default when
\* hp <= 0 and the sanity default when only sanity <= 0.
GameOverBackstop ==
    ActionAnswered(200) =>
        LET st == sessions[lastResp.sessionId]
            body == lastResp.body
            log == body.toolCalls
        IN  (st.stats.hp <= 0 \/ st.stats.sanity <= 0) =>
                /\ st.isGameOver
                /\ body.isGameOver
                /\ body.state[1].isGameOver
                /\ body.gameOverDescription =
                        IF SuccessfulTriggers(log) # {}
                        THEN <<Trim(log[Last(SuccessfulTriggers(log))].args.deathDescription)>>
                        ELSE IF st.stats.hp <= 0
                        THEN <<"Tvoyo telo ne vyderzhalo.">>
                        ELSE <<"Tvoy razum rassypalsya.">>

\* A turn completed with hp and sanity both at 0 and no trigger_game_over.
GameOverBackstopWitness ==
    /\ ActionAnswered(200)
    /\ sessions[lastResp.sessionId].stats.hp = 0
    /\ sessions[lastResp.sessionId].stats.sanity = 0
    /\ CallsOf(lastResp.body.toolCalls, "trigger_game_over") = {}
    /\ Len(lastResp.body.toolCalls) = 2

\* C5: whenever no /action of a session is in progress, hp = 0 or sanity = 0
\* implies isGameOver.
ZeroForcesGameOver ==
    \A sid \in DOMAIN sessions :
        (req[sid].pc = "idle" /\ (sessions[sid].stats.hp = 0 \/ sessions[sid].stats.sanity = 0))
            => sessions[sid].isGameOver

SameButTurn(a, b) == [a EXCEPT !.turn = 0] = [b EXCEPT !.turn = 0]

\* C6: when a model call of an /action fails, the session's state is what it
\* was before the request, the turn counter aside.
FailedTurnLeavesState ==
    [][\A sid \in DOMAIN sessions :
            (/\ req[sid].pc \in {"model", "final"}
             /\ req'[sid].pc = "idle"
             /\ lastResp'.status \in {429, 500})
            => SameButTurn(sessions'[sid], req[sid].pre[1])]_vars

\* C7: every successfully completed turn returns exactly 3 choices, whatever
\* the final text of the model is; they become the 3 pending choices.
AlwaysThreeChoices ==
    ActionAnswered(200) =>
        /\ Len(lastResp.body.choices) = 3
        /\ Len(sessions[lastResp.sessionId].pendingChoices) = 3

\* A turn completed on a text with two list items: the third choice is the
\* default filler.
AlwaysThreeChoicesWitness ==
    /\ ActionAnswered(200)
    /\ lastResp.body.choices = <<"A", "B", defaults[3]>>

\* C8: against a model that requests a tool call in every response, a turn
\* runs at most 10 rounds of tool execution (one call each here), is not
\* failed, and is answered with a non-blank story and exactly 3 choices.
ToolLoopIsCapped ==
    /\ \A sid \in DOMAIN sessions :
            /\ req[sid].iterations <= maxIterations
            /\ Len(Log(sid)) <= maxIterations
    /\ lastResp.status \notin {429, 500}
    /\ ActionAnswered(200) =>
            /\ Len(lastResp.body.toolCalls) <= maxIterations
            /\ NonBlank(lastResp.body.story_text)
            /\ Len(lastResp.body.choices) = 3

\* A turn completed after 10 rounds of tool execution.
ToolLoopIsCappedWitness ==
    /\ ActionAnswered(200)
    /\ Len(lastResp.body.toolCalls) = maxIterations

ValidTagArgs == {[tag |-> t] : t \in {"bleeding", " bleeding ", "cursed", "final_trial", "vow"}}

\* C9: tags never holds a duplicate, and in every reachable state add_tag of
\* any tag succeeds, appends the trimmed tag after the existing ones when it
\* is absent, changes nothing when it is present, and a second add_tag of
\* the same tag changes nothing more.
AddTagIsIdempotent ==
    \A sid \in DOMAIN sessions :
        LET st == sessions[sid]
        IN  /\ NoDuplicates(st.tags)
            /\ \A args \in ValidTagArgs :
                LET once == executeAddTag(createExecutionContext, st, args)
                    twice == executeAddTag(once.ctx, once.state, args)
                IN  /\ once.result.success
                    /\ twice.result.success
                    /\ once.state.tags =
                            IF Includes(st.tags, Trim(args.tag)) THEN st.tags
                            ELSE st.tags \o <<Trim(args.tag)>>
                    /\ twice.state = once.state
                    /\ [once.state EXCEPT !.tags = st.tags] = st

\* The model added a tag, and then the same tag with white space around it:
\* both calls succeeded and the tag is there once.
AddTagIsIdempotentWitness ==
    \E sid \in DOMAIN sessions :
        /\ Len(Log(sid)) = 3
        /\ \A i \in 1..3 : Log(sid)[i].toolName = "add_tag" /\ Log(sid)[i].result.success
        /\ Log(sid)[1].args.tag = "cursed"
        /\ Log(sid)[2].args.tag = "bleeding"
        /\ Log(sid)[3].args.tag = " bleeding "
        /\ sessions[sid].tags = <<"cursed", "bleeding">>

\* C10: in every reachable state remove_tag of an absent tag fails and
\* changes nothing; remove_tag of a present tag succeeds and removes that
\* tag alone, the others keeping their order.
RemoveTagIsStrict ==
    \A sid \in DOMAIN sessions :
        LET st == sessions[sid]
        IN  \A args \in ValidTagArgs :
                LET r == executeRemoveTag(createExecutionContext, st, args)
                IN  IF Includes(st.tags, Trim(args.tag))
                    THEN /\ r.result.success
                         /\ r.state.tags = Without(st.tags, Trim(args.tag))
                         /\ [r.state EXCEPT !.tags = st.tags] = st
                    ELSE /\ ~r.result.success
                         /\ r.state = st

\* The model added two tags, removed the first, then tried to remove it
\* again: the second removal failed and the other tag is still there.
RemoveTagIsStrictWitness ==
    \E sid \in DOMAIN sessions :
        /\ Len(Log(sid)) = 4
        /\ \A i \in 1..2 : Log(sid)[i].toolName = "add_tag" /\ Log(sid)[i].result.success
        /\ \A i \in 3..4 : Log(sid)[i].toolName = "remove_tag" /\ Has(Log(sid)[i].args, "tag")
        /\ Log(sid)[3].args.tag = Log(sid)[1].args.tag
        /\ Log(sid)[4].args.tag = Log(sid)[1].args.tag
        /\ Log(sid)[3].result.success
        /\ ~Log(sid)[4].result.success
        /\ sessions[sid].tags = <<Trim(Log(sid)[2].args.tag)>>

ValidSceneArgs ==
    {c.args : c \in {c \in SceneCalls : Has(c.args, "materials") /\ FilterMaterials(c.args) # <<>>}}

\* C11: the continuity prefix of generate_scene_image is decided by the
\* state before the call: no previous location gives "Starting location", a
\* different previous location A gives "Transitioning from" A, the same
\* location gives "Continuing in" when a material is shared with the previous
\* environment and "Still in" when none is.  A location is recorded exactly
\* when an environment is, so the four cases cover every reachable state.
ScenePrefixByPreviousState ==
    \A sid \in DOMAIN sessions :
        LET st == sessions[sid]
        IN  /\ (st.currentLocation = <<>>) <=> (st.environment = <<>>)
            /\ st.environment # <<>> => st.environment[1].location = st.currentLocation[1]
            /\ \A args \in ValidSceneArgs :
                LET r == executeGenerateSceneImage(createExecutionContext, st, args)
                    location == Trim(args.location)
                    shared == \E m \in {st.environment[1].materials[i] :
                                            i \in 1..Len(st.environment[1].materials)} :
                                    Includes(FilterMaterials(args), m)
                IN  /\ r.result.success
                    /\ r.ctx.imagePrompt[1].location = location
                    /\ r.ctx.imagePrompt[1].prefix =
                            IF st.currentLocation = <<>> THEN "Starting location"
                            ELSE IF st.currentLocation[1] # location THEN "Transitioning from"
                            ELSE IF shared THEN "Continuing in"
                            ELSE "Still in"
                    /\ r.ctx.imagePrompt[1].prefix = "Transitioning from"
                            => r.ctx.imagePrompt[1].from = st.currentLocation

\* In one turn the model drew the capsule in metal and rust, then the capsule
\* in flesh: the second prompt is "Still in".
ScenePrefixByPreviousStateWitness ==
    \E sid \in DOMAIN sessions :
        /\ Len(Log(sid)) = 2
        /\ \A i \in 1..2 : Log(sid)[i].toolName = "generate_scene_image" /\ Log(sid)[i].result.success
        /\ Log(sid)[1].args.materials = <<"metal", "rust">>
        /\ Log(sid)[2].args.materials = <<"flesh">>
        /\ sessions[sid].currentLocation = <<"capsule">>
        /\ req[sid].ctx.imagePrompt # <<>>
        /\ req[sid].ctx.imagePrompt[1].prefix = "Still in"

InFlightCheck(sid) == req[sid].choiceCheck[1]

\* C12: the result of a choice check has chance = clamp(current / required,
\* 0, 1) when required > 0 and chance = 1 when required <= 0, and success
\* exactly when roll <= chance; current 40 and required 80 give chance 1/2,
\* success for roll 0.30 and failure for roll 0.70.
ChoiceCheckResolution ==
    \A sid \in DOMAIN sessions :
        req[sid].choiceCheck # <<>> =>
            LET c == InFlightCheck(sid)
            IN  /\ c.current = req[sid].pre[1].stats[c.stat]
                /\ c.chance.den > 0
                /\ c.required <= 0 => c.chance.num = c.chance.den
                /\ (c.required > 0 /\ c.current <= 0) => c.chance.num = 0
                /\ (c.required > 0 /\ c.current >= c.required) => c.chance.num = c.chance.den
                /\ (c.required > 0 /\ 0 < c.current /\ c.current < c.required)
                        => c.chance.num * c.required = c.current * c.chance.den
                /\ c.success <=> (c.roll * c.chance.den <= 100 * c.chance.num)
                /\ c.required <= 0 => c.success
                /\ (c.current = 40 /\ c.required = 80) =>
                        /\ 2 * c.chance.num = c.chance.den
                        /\ c.roll = 30 => c.success
                        /\ c.roll = 70 => ~c.success

\* The player chose a pending choice (stored with white space around its
\* text) that asks for strength 80 while strength is 40, and rolled exactly the chance:
\* the check succeeded.
ChoiceCheckResolutionWitness ==
    \E sid \in DOMAIN sessions :
        /\ req[sid].choiceCheck # <<>>
        /\ req[sid].action = "Force"
        /\ InFlightCheck(sid).stat = "strength"
        /\ InFlightCheck(sid).current = 40
        /\ InFlightCheck(sid).required = 80
        /\ InFlightCheck(sid).roll = 50
        /\ InFlightCheck(sid).success

RequestedDeltas == {-120, -10, -3, -1, 0, 7}

\* C13: for every intent, every reachable strength, dexterity and
\* intelligence and every delta d the model requests for hp or sanity, the
\* adjusted delta is d itself when d >= 0 and lies between d and 0 when d < 0.
ModulationNeverAmplifies ==
    \A sid \in DOMAIN sessions : \A intent \in Intents : \A d \in RequestedDeltas :
        LET adjusted == adjustStatUpdates([hp |-> d, sanity |-> d], sessions[sid], intent)
        IN  /\ d >= 0 => (adjusted.hp = d /\ adjusted.sanity = d)
            /\ d < 0 => (d <= adjusted.hp /\ d <= adjusted.sanity)

\* Negative deltas num / den, whole and fractional (the schema's type is NUMBER)
NegativeDeltas == {<<-120, 1>>, <<-3, 1>>, <<-1, 1>>, <<-1, 2>>, <<-7, 10>>, <<-1, 10>>}

\* Modifiers after the clamps, in hundredths
Modifiers == {5 * k : k \in -6..6} \cup {-8, -3, 9}

AuditLogComplete ==
    /\ \A sid \in DOMAIN sessions :
            LET log == Log(sid)
                emitted == req[sid].contents
            IN  /\ Len(log) = Len(emitted)
                /\ \A i \in 1..Len(log) :
                        /\ log[i].toolName = emitted[i].name
                        /\ emitted[i].name # "update_player_stats" => log[i].args = emitted[i].args
                /\ req[sid].pc \in {"idle", "router"} => log = <<>>
    /\ (ActionAnswered(200) /\ nCalls = 0) => lastResp.body.toolCalls = <<>>

\* Across two responses the model asked for an unknown tool, then for a tag
\* that is absent to be removed and a tag to be added: three entries, in order.
AuditLogCompleteWitness ==
    \E sid \in DOMAIN sessions :
        /\ Len(Log(sid)) = 3
        /\ req[sid].iterations = 2
        /\ Log(sid)[1].toolName = "fly_away" /\ ~Log(sid)[1].result.success
        /\ Log(sid)[2].toolName = "remove_tag" /\ ~Log(sid)[2].result.success
        /\ Log(sid)[3].toolName = "add_tag" /\ Log(sid)[3].result.success

\* Calls of every tool with a required argument missing or blank, an unknown
\* inventory action, an item or tag that may be absent, an unknown tool, and
\* well-formed calls.
ProbeCalls ==
    {UnknownCall, TagCall, RemoveAbsentTagCall, AddKeyCall, RemoveKeyCall, SceneCall,
     EndCall, HurtCall,
     ToolCall("inventory_action", [itemName |-> "Key", reason |-> "x"]),
     ToolCall("inventory_action", [action |-> "  ", itemName |-> "Key", reason |-> "x"]),
     ToolCall("inventory_action", [action |-> "add", reason |-> "x"]),
     ToolCall("inventory_action", [action |-> "remove", itemName |-> "  ", reason |-> "x"]),
     ToolCall("inventory_action", [action |-> "drop", itemName |-> "Key", reason |-> "x"]),
     ToolCall("inventory_action", [action |-> "remove", itemName |-> "Lamp", reason |-> "x"]),
     ToolCall("add_tag", [reason |-> "x"]),
     ToolCall("add_tag", [tag |-> "  ", reason |-> "x"]),
     ToolCall("remove_tag", [reason |-> "x"]),
     ToolCall("remove_tag", [tag |-> "  ", reason |-> "x"]),
     ToolCall("remove_tag", [tag |-> "bleeding", reason |-> "x"]),
     ToolCall("trigger_game_over", [deathDescription |-> "You fall."]),
     ToolCall("trigger_game_over", [endingType |-> "death", deathDescription |-> "  "]),
     ToolCall("generate_scene_image", [materials |-> <<"rust">>, lighting |-> "dim",
                                       atmosphere |-> "dread"]),
     ToolCall("generate_scene_image", [location |-> "Vault", materials |-> <<>>,
                                       lighting |-> "dim", atmosphere |-> "dread"]),
     ToolCall("generate_scene_image", [location |-> "Vault", materials |-> <<"rust">>,
                                       lighting |-> "  ", atmosphere |-> "dread"]),
     ToolCall("generate_scene_image", [location |-> "Vault", materials |-> <<"rust">>,
                                       lighting |-> "dim"])}

\* The calls of a response whose log entry records a success
RECURSIVE Succeeded(_, _)
Succeeded(calls, entries) ==
    IF calls = <<>> THEN <<>>
    ELSE (IF Head(entries).result.success THEN <<Head(calls)>> ELSE <<>>)
         \o Succeeded(Tail(calls), Tail(entries))

FailedCallChangesNothing ==
    \A sid \in DOMAIN sessions : \A call \in ProbeCalls :
        LET cx == req[sid].ctx
            r == ExecuteCall(cx, sessions[sid], call, req[sid].intent, nextItem + 1)
        IN  ~r.result.success =>
                /\ r.state = sessions[sid]
                /\ r.ctx = [cx EXCEPT !.toolCalls = r.ctx.toolCalls]
                /\ Len(r.ctx.toolCalls) = Len(cx.toolCalls) + 1

FailedCallDoesNotStopLoop ==
    \A sid \in DOMAIN sessions :
        (sid \in DOMAIN sessions' /\ Len(Log(sid)') > Len(Log(sid))) =>
            LET n == Len(Log(sid))
                entries == SubSeq(Log(sid)', n + 1, Len(Log(sid)'))
                calls == SubSeq(req'[sid].contents, n + 1, Len(req'[sid].contents))
                replay == RunCalls(req[sid].ctx, sessions[sid], Succeeded(calls, entries),
                                   req[sid].intent, nextItem)
            IN  /\ Len(entries) = Len(calls)
                /\ \A i \in 1..Len(calls) : entries[i].toolName = calls[i].name
                /\ sessions'[sid] = replay.state
                /\ req'[sid].ctx.imagePrompt = replay.ctx.imagePrompt
                /\ req'[sid].ctx.gameOverTriggered = replay.ctx.gameOverTriggered
                /\ nextItem' = replay.uuid
                /\ req'[sid].pc = "model"
                /\ req'[sid].iterations = req[sid].iterations + 1

\* C16: a tool invocation that returns success=false (argument missing or
\* blank, unknown inventory action, absent item or tag, unknown tool) changes
\* nothing of the game state nor of the turn's image prompt and game-over
\* flag, and does not stop the loop: every call of the response is executed,
\* the state after the round is the one the successful calls alone produce,
\* and the model is invoked again.
FailedCallIsHarmless ==
    []FailedCallChangesNothing /\ [][FailedCallDoesNotStopLoop]_vars

\* A round of two calls of which the first failed (an unknown tool) and the
\* second added an item, after which the model is awaited again.
FailedCallIsHarmlessWitness ==
    \E sid \in DOMAIN sessions :
        /\ req[sid].pc = "model"
        /\ req[sid].iterations = 1
        /\ Len(Log(sid)) = 2
        /\ Log(sid)[1].toolName = "fly_away" /\ ~Log(sid)[1].result.success
        /\ Log(sid)[2].toolName = "inventory_action" /\ Log(sid)[2].result.success
        /\ Len(sessions[sid].inventory) = 1

\* The arguments without field f, and with field f blank
Drop(args, f) == [g \in (DOMAIN args) \ {f} |-> args[g]]

Blanked(args, f) == [args EXCEPT ![f] = "  "]

\* One well-formed call of every tool, that succeeds in any state where the
\* tag it removes is set.
WellFormedCalls == {HurtCall, AddKeyCall, TagCall, EndCall, SceneCall,
                    ToolCall("remove_tag", [tag |-> "bleeding", reason |-> "healed"])}

\* C17: a tool call in which a string field the tool's declaration lists as
\* required is missing or blank returns a failure result, the field 'reason'
\* of update_player_stats, inventory_action, add_tag and remove_tag included.
RequiredFieldsRejected ==
    \A sid \in DOMAIN sessions : \A call \in WellFormedCalls :
        \A f \in RequiredStrings[call.name] :
            \A args \in {Drop(call.args, f), Blanked(call.args, f)} :
                ~executeTool(req[sid].ctx, sessions[sid], call.name, args,
                             nextItem + 1).result.success

\* Names a removal may ask for
RemovedNames == {"Key", "KEY", " Key", "Lamp", "Rope", "Rusty Key"}

\* C18: inventory_action remove deletes exactly one item, the first in
\* inventory order whose whole name equals the requested name without
\* regard to case; the items before it keep their place, those after it move
\* up by one, and the rest of the state is unchanged.  When no item has the
\* name the call fails and the state is unchanged.
RemoveTakesFirstMatch ==
    \A sid \in DOMAIN sessions : \A name \in RemovedNames :
        LET st == sessions[sid]
            inv == st.inventory
            r == executeInventoryAction(req[sid].ctx, st,
                     [action |-> "remove", itemName |-> name, reason |-> "used"],
                     nextItem + 1)
            after == r.state.inventory
            matches == {i \in 1..Len(inv) : ToLowerCase(inv[i].name) = ToLowerCase(Trim(name))}
        IN  IF matches = {}
            THEN ~r.result.success /\ r.state = st
            ELSE LET m == CHOOSE i \in matches : \A j \in matches : i <= j
                 IN  /\ r.result.success
                     /\ Len(after) = Len(inv) - 1
                     /\ \A j \in 1..(m - 1) : after[j] = inv[j]
                     /\ \A j \in m..Len(after) : after[j] = inv[j + 1]
                     /\ r.state = [st EXCEPT !.inventory = after]

\* Lamp, Key and KEY were added in this order and a removal of " Key" took
\* Key, the second item, leaving Lamp and KEY.
RemoveTakesFirstMatchWitness ==
    \E sid \in DOMAIN sessions :
        /\ Len(Log(sid)) = 4
        /\ Log(sid)[4].args.action = "remove" /\ Log(sid)[4].result.success
        /\ Len(sessions[sid].inventory) = 2
        /\ sessions[sid].inventory[1].name = "Lamp" /\ sessions[sid].inventory[1].id = 1
        /\ sessions[sid].inventory[2].name = "KEY" /\ sessions[sid].inventory[2].id = 3

\* A /restart has just been handled.
RestartStep == nReq' = nReq + 1 /\ lastReq'.kind = "restart"

\* An /action with a well-formed payload has just arrived.
ActionStep == nReq' = nReq + 1 /\ lastReq'.kind = "action" /\ lastReq'.action # ""

\* C19: /restart with session id S takes S out of the store and stores a
\* session under an id never issued before, whose state has hp 100 and
\* sanity 100, no item, no tag, isGameOver false and the intro as its only
\* history entry, whatever the state of S was; an /action that names an id
\* not in the store, a restarted one included, is answered 404.
RestartDiscardsOldSession ==
    [][/\ RestartStep =>
            LET S == lastReq'.sessionId
                new == nextSession'
            IN  /\ S # NoSession => S \notin store'
                /\ new \notin DOMAIN sessions /\ new # S /\ new \in store'
                /\ lastResp'.status = 200 => lastResp'.sessionId = new
                /\ sessions'[new].stats.hp = 100 /\ sessions'[new].stats.sanity = 100
                /\ sessions'[new].inventory = <<>> /\ sessions'[new].tags = <<>>
                /\ ~sessions'[new].isGameOver
                /\ sessions'[new].history = <<[role |-> "model", parts |-> INTRO_TEXT]>>
                /\ sessions'[new].turn = 0
                /\ lastResp'.status = 200 =>
                        lastResp'.body.state = <<serializeState(sessions'[new])>>
       /\ (ActionStep /\ lastReq'.sessionId # NoSession /\ lastReq'.sessionId \notin store)
            => lastResp'.status = 404]_vars

\* Session 1 was played for a turn that changed its stats, then restarted:
\* it is out of the store and session 2 is the fresh one.
RestartDiscardsOldSessionWitness ==
    /\ lastReq.kind = "restart" /\ lastReq.sessionId = 1
    /\ lastResp.sessionId = 2
    /\ store = {2}
    /\ sessions[1].turn = 1 /\ Len(sessions[1].history) = 3
    /\ sessions[1].stats.hp < 100
    /\ sessions[2].stats.hp = 100 /\ Len(sessions[2].history) = 1

\* The status /action answers with before any await, 0 when it goes on
RejectionOf(sessionId, action) ==
    IF sessionId = NoSession \/ action = "" THEN 400
    ELSE IF sessionId \notin store THEN 404
    ELSE IF sessions[sessionId].isGameOver THEN 409
    ELSE 0

\* C20: an /action is tested for a malformed payload (400), then for an
\* unknown session (404), then for a game already over (409), and the first
\* test that fails decides the status; a rejected request leaves every
\* session's state, the turn counter included, the store and every request
\* in flight as they were, so that neither the router nor the model is called.
RejectionsInOrder ==
    [][(nReq' = nReq + 1 /\ lastReq'.kind = "action") =>
            LET status == RejectionOf(lastReq'.sessionId, lastReq'.action)
            IN  /\ lastResp'.status = status
                /\ status # 0 =>
                        /\ lastResp'.kind = "action"
                        /\ sessions' = sessions
                        /\ req' = req
                        /\ store' = store
                        /\ nCalls' = nCalls
                        /\ nextItem' = nextItem
                /\ status = 0 =>
                        sessions'[lastReq'.sessionId].turn
                            = sessions[lastReq'.sessionId].turn + 1]_vars

\* An /action with an empty action text for a session whose game is over was
\* answered 400, not 409, after the turn that ended the game was complete,
\* and the turn counter stayed at 1.
RejectionsInOrderWitness ==
    /\ ActionAnswered(400)
    /\ lastReq.action = ""
    /\ lastReq.sessionId \in store
    /\ sessions[lastReq.sessionId].isGameOver
    /\ sessions[lastReq.sessionId].turn = 1
    /\ Len(sessions[lastReq.sessionId].history) = 3
    /\ req[lastReq.sessionId].pc = "idle"

\* An /action for session sid has just passed the three tests.
Accepted(sid) ==
    /\ nReq' = nReq + 1
    /\ lastReq'.kind = "action"
    /\ lastReq'.sessionId = sid
    /\ RejectionOf(sid, lastReq'.action) = 0

\* C21: the turn counter of a session never decreases; it goes up by exactly
\* one in the step that accepts an /action for the session, before the
\* router and the model are called, and in no other step; a turn that ends
\* with an error status keeps the number it took.
TurnCountsAcceptedActions ==
    [][\A sid \in DOMAIN sessions :
            /\ sessions'[sid].turn >= sessions[sid].turn
            /\ Accepted(sid) =>
                    /\ sessions'[sid].turn = sessions[sid].turn + 1
                    /\ req'[sid].pc = "router"
                    /\ nCalls' = nCalls
            /\ ~Accepted(sid) => sessions'[sid].turn = sessions[sid].turn]_vars

\* The first turn of a session was aborted by a failed model call: nothing
\* was added to the history and the turn counter is 1.
TurnCountsAcceptedActionsWitness ==
    /\ lastResp.kind = "action" /\ lastResp.status \in {429, 500}
    /\ lastResp.sessionId \in DOMAIN sessions
    /\ backend # "none"
    /\ sessions[lastResp.sessionId].turn = 1
    /\ Len(sessions[lastResp.sessionId].history) = 1
    /\ req[lastResp.sessionId].pc = "idle"

\* The last n elements of a sequence
LastOf(seq, n) == SubSeq(seq, Len(seq) - n + 1, Len(seq))

\* An /action of session sid has just been answered 200.
Completed(sid) ==
    /\ req[sid].pc \in {"model", "final", "image"}
    /\ req'[sid].pc = "idle"
    /\ lastResp'.status = 200

HistoryIsBounded ==
    \A sid \in DOMAIN sessions :
        Len(sessions[sid].history) >= 1 /\ Len(sessions[sid].history) <= 24

HistoryIsFifo ==
    \A sid \in DOMAIN sessions :
        LET before == sessions[sid].history
            after == sessions'[sid].history
            full == before \o <<[role |-> "user", parts |-> Str(req[sid].action)],
                                [role |-> "model", parts |-> lastResp'.body.story_text]>>
        IN  IF Completed(sid)
            THEN after = LastOf(full, Min(24, Len(full)))
            ELSE after = before

\* C22: the history holds between 1 and 24 entries; a turn answered 200
\* appends the player's action (role user) and then the returned story text
\* (role model) and, when that makes more than 24 entries, keeps the last 24
\* in their order; every other step, a failed turn included, leaves the
\* history as it was.
HistoryIsBoundedFifo == []HistoryIsBounded /\ [][HistoryIsFifo]_vars

\* A session that had played 12 turns completed one more: the history still
\* has 24 entries, the two of the oldest turn left are gone and the new
\* action and story are the last two.
HistoryIsBoundedFifoWitness ==
    /\ ActionAnswered(200)
    /\ sessions[1].turn = 13
    /\ Len(sessions[1].history) = 24
    /\ sessions[1].history[1] = [role |-> "user", parts |-> Str("a2")]
    /\ sessions[1].history[22] = [role |-> "model", parts |-> Str("s12")]
    /\ sessions[1].history[23] = [role |-> "user", parts |-> Str(lastReq.action)]
    /\ sessions[1].history[24] = [role |-> "model", parts |-> lastResp.body.story_text]

\* The step is one of an /action on session sid: its arrival, or a later
\* step of the request in flight.
ActionStepOf(sid) ==
    \/ nReq' = nReq + 1 /\ lastReq'.kind = "action" /\ lastReq'.sessionId = sid
    \/ sid \in DOMAIN req /\ req'[sid] # req[sid]

\* C23: a step of an /action on session A leaves the whole state of every
\* other session B (stats, inventory, tags, environment, turn, history,
\* pendingChoices, isGameOver) and B's request in flight as they were; so do
\* /start and /restart for the state of every session that exists.
SessionsAreIndependent ==
    [][/\ \A A \in SessionIds : ActionStepOf(A) =>
                \A B \in DOMAIN sessions \ {A} :
                    sessions'[B] = sessions[B] /\ req'[B] = req[B]
       /\ (nReq' = nReq + 1 /\ lastReq'.kind \in {"start", "restart"}) =>
                \A B \in DOMAIN sessions : sessions'[B] = sessions[B] /\ req'[B] = req[B]]_vars

\* Turns of sessions 1 and 2 are in flight together: a tool call of the one
\* set a tag, a tool call of the other took its hp to 0, and neither shows in
\* the other session.
SessionsAreIndependentWitness ==
    /\ DOMAIN sessions = {1, 2}
    /\ req[1].pc = "model" /\ req[2].pc = "model"
    /\ Len(Log(1)) = 1 /\ Len(Log(2)) = 1
    /\ sessions[1].tags = <<"bleeding">> /\ sessions[1].stats.hp = 100
    /\ sessions[2].tags = <<>> /\ sessions[2].stats.hp = 0

\* The errors the retry layer takes for a rate limit
RateLimitErrors == {e \in ModelErrors : isRateLimitError(e)}

SuccessfulScenes(log) ==
    {i \in CallsOf(log, "generate_scene_image") : log[i].result.success}

\* C25: the image prompt of a turn answered 200 is set exactly when a
\* generate_scene_image call of that turn's log succeeded, and it is then the
\* prompt of the last such call (its location and visual description); the
\* image_url is set only when the image prompt is.
ImagePromptOnlyFromScene ==
    ActionAnswered(200) =>
        LET body == lastResp.body
            log == body.toolCalls
            S == SuccessfulScenes(log)
        IN  /\ (body.image_prompt # <<>>) <=> (S # {})
            /\ S # {} =>
                    /\ body.image_prompt[1].location = Trim(log[Last(S)].args.location)
                    /\ body.image_prompt[1].visualDescription
                            = Trim(log[Last(S)].args.visualDescription)
            /\ body.image_url # <<>> => body.image_prompt # <<>>

\* A turn in which two scene calls succeeded, for the capsule and then for
\* the corridor, was answered with the corridor's prompt and an image URL.
ImagePromptOnlyFromSceneWitness ==
    /\ ActionAnswered(200)
    /\ Len(lastResp.body.toolCalls) = 2
    /\ SuccessfulScenes(lastResp.body.toolCalls) = {1, 2}
    /\ lastResp.body.toolCalls[1].args.location = "capsule"
    /\ lastResp.body.image_prompt # <<>>
    /\ lastResp.body.image_prompt[1].location = "corridor"
    /\ lastResp.body.image_url = <<"url">>

\* C26: whatever the image backends answer, /start and /restart are answered
\* 200 with an image URL, and an /action answered 200 with an image prompt
\* carries an image URL.
ImageNeverFailsRequest ==
    /\ lastResp.kind \in {"start", "restart"} =>
            lastResp.status = 200 /\ lastResp.body.image_url # <<>>
    /\ (ActionAnswered(200) /\ lastResp.body.image_prompt # <<>>) =>
            lastResp.body.image_url # <<>>

\* The story a final model text gives in a turn without tool calls
StoryOf(text) ==
    buildResponse(ModelResponse(<<>>, text), createExecutionContext, NewGameState).response.storyText

\* C27: the story text of every answered turn has a character that is not
\* white space; a model that returns no text gives the line "AM molchit...",
\* a text or a story_text that is empty after cleanup gives the line
\* "AM nablyudaet za toboy v tishine...", and output that fails the
\* structured extraction gives its cleaned text.
StoryIsNeverEmpty ==
    /\ ActionAnswered(200) =>
            /\ NonBlank(lastResp.body.story_text)
            /\ lastResp.body.story_text \in {StoryOf(text) : text \in AnyTexts}
    /\ \A sid \in DOMAIN sessions : req[sid].out # <<>> => NonBlank(req[sid].out[1].storyText)
    /\ \A text \in AnyTexts : NonBlank(StoryOf(text))
    /\ StoryOf(NoText) = Str("AM molchit...")
    /\ StoryOf(BlankText) = Str("AM nablyudaet za toboy v tishine...")
    /\ StoryOf(JsonBlankStoryText) = Str("AM nablyudaet za toboy v tishine...")
    /\ StoryOf(JsonTwoText) = Str("{json}")
    /\ StoryOf(ListOnlyText) = <<Line("1.", "A")>>

\* A turn was answered with the fallback line for a text that is empty
\* after cleanup.
StoryIsNeverEmptyWitness ==
    /\ ActionAnswered(200)
    /\ lastResp.body.story_text = Str("AM nablyudaet za toboy v tishine...")
    /\ sessions[lastResp.sessionId].history[3].parts = lastResp.body.story_text

\* The deltas of one stat in the successful update_player_stats entries of
\* a log, in order
RECURSIVE DeltasOf(_, _)
DeltasOf(log, stat) ==
    IF log = <<>> THEN <<>>
    ELSE LET e == Head(log)
         IN  (IF e.toolName = "update_player_stats" /\ e.result.success /\ Has(e.args, stat)
              THEN <<e.args[stat]>> ELSE <<>>) \o DeltasOf(Tail(log), stat)

RECURSIVE SumOf(_)
SumOf(deltas) == IF deltas = <<>> THEN 0 ELSE Head(deltas) + SumOf(Tail(deltas))

\* A value after each delta is added and the sum held in [0, 100]
RECURSIVE ClampedSum(_, _)
ClampedSum(v, deltas) ==
    IF deltas = <<>> THEN v ELSE ClampedSum(clamp(v + Head(deltas), 0, 100), Tail(deltas))

UnboundedStats == {"strength", "intelligence", "dexterity"}

ClampedStats == {"hp", "sanity"}

\* The turn of sid is under way
InTurn(sid) == req[sid].pre # <<>>

StatsAccumulate ==
    \A sid \in DOMAIN sessions : InTurn(sid) =>
        LET before == req[sid].pre[1].stats
            after == sessions[sid].stats
            calls == req[sid].contents
        IN  /\ Len(Log(sid)) = Len(calls)
            /\ \A i \in 1..Len(calls) :
                    /\ Log(sid)[i].toolName = calls[i].name
                    /\ calls[i].name = "update_player_stats" =>
                            /\ Log(sid)[i].result.success
                            /\ DOMAIN Log(sid)[i].args = DOMAIN calls[i].args
            /\ \A stat \in UnboundedStats :
                    after[stat] = before[stat] + SumOf(DeltasOf(Log(sid), stat))
            /\ \A stat \in ClampedStats :
                    /\ after[stat] = ClampedSum(before[stat], DeltasOf(Log(sid), stat))
                    /\ (\A n \in 1..Len(DeltasOf(Log(sid), stat)) :
                            before[stat] + SumOf(SubSeq(DeltasOf(Log(sid), stat), 1, n))
                                \in 0..100)
                        => after[stat] = before[stat] + SumOf(DeltasOf(Log(sid), stat))

\* The turn ends with the stats the tool calls left and returns their log.
StatsKeptAtCompletion ==
    \A sid \in DOMAIN sessions : Completed(sid) =>
        /\ sessions'[sid].stats = sessions[sid].stats
        /\ lastResp'.body.toolCalls = Log(sid)
        /\ lastResp'.body.state[1].stats = sessions[sid].stats

StatUpdatesSumTheLog ==
    ActionAnswered(200) =>
        LET log == lastResp.body.toolCalls
            updates == lastResp.body.stat_updates
        IN  /\ DOMAIN updates =
                    {stat \in UnboundedStats \cup ClampedStats : DeltasOf(log, stat) # <<>>}
            /\ \A stat \in DOMAIN updates : updates[stat] = SumOf(DeltasOf(log, stat))

\* A turn with two stat updates, a tag added with an hp argument and an
\* unknown tool with one: hp sums to 0 and is present, sanity is absent.
StatUpdatesSumTheLogWitness ==
    /\ ActionAnswered(200)
    /\ Len(lastResp.body.toolCalls) = 4
    /\ Len(DeltasOf(lastResp.body.toolCalls, "hp")) = 2
    /\ \E i, j \in 1..4 :
            /\ lastResp.body.toolCalls[i].toolName = "add_tag"
            /\ lastResp.body.toolCalls[i].result.success
            /\ lastResp.body.toolCalls[j].toolName = "fly_away"
    /\ DOMAIN lastResp.body.stat_updates = {"hp", "strength", "sanity"}
    /\ lastResp.body.stat_updates.hp = 0

\* A router result within the enumerated sets, its confidence in [0, 1]
\* (in hundredths)
WellFormedResult(result) ==
    /\ result.intent \in Intents
    /\ result.suggestedDifficulty \in Difficulties
    /\ result.emotionalTone \in Tones
    /\ result.confidence \in 0..100

RouterResultsWellFormed ==
    /\ \A outcome \in RouterOutcomes : WellFormedResult(classifyIntent(outcome))
    /\ \A sid \in DOMAIN sessions :
            /\ req[sid].intent \in Intents
            /\ req[sid].router # <<>> => WellFormedResult(req[sid].router[1])

\* The router's step changes no game state and hands the turn to the
\* orchestrator.
RouterOnlyAdvises ==
    \A sid \in DOMAIN sessions :
        (req[sid].pc = "router" /\ req'[sid] # req[sid]) =>
            /\ sessions' = sessions /\ store' = store
            /\ req'[sid].pc = "model"
            /\ lastResp' = lastResp

\* C30: classifyIntent returns, for every outcome of its backend (an error,
\* no function call, arguments that are missing, of the wrong type or out of
\* their sets), an intent, a difficulty and a tone of the enumerated sets and
\* a confidence in [0, 1]; the router's step changes no GameState and always
\* hands the turn on to the orchestrator.
RouterIsAdvisory == []RouterResultsWellFormed /\ [][RouterOnlyAdvises]_vars

\* The router's backend failed (confidence 0.3), and the orchestrator has
\* executed a tool call of the turn.
RouterIsAdvisoryWitness ==
    \E sid \in DOMAIN sessions :
        /\ req[sid].router = <<RouterResult("unknown", 30, "medium", "neutral")>>
        /\ req[sid].pc = "model"
        /\ Len(Log(sid)) = 1
        /\ sessions[sid].stats.hp < 100

\* C31: in the game where every final answer of the model offers a choice
\* with a stat check and the player submits the text of that choice, the
\* turn after a completed turn finds the check in pendingChoices and has a
\* resolver result that is not null for its orchestration.
CheckedChoiceIsResolved ==
    \A sid \in DOMAIN sessions :
        (req[sid].pc \in {"router", "model"} /\ sessions[sid].turn >= 2) =>
            /\ \E i \in 1..Len(req[sid].pre[1].pendingChoices) :
                    Has(req[sid].pre[1].pendingChoices[i], "check")
            /\ req[sid].choiceCheck # <<>>

\* Both /action requests of the session are suspended at a model call
BothInFlight(sid) == req[sid].pc \in {"model", "final"} /\ req[sid].other # <<>>

WorldUnchanged(sid) ==
    /\ sessions'[sid].stats = sessions[sid].stats
    /\ sessions'[sid].inventory = sessions[sid].inventory
    /\ sessions'[sid].tags = sessions[sid].tags
    /\ sessions'[sid].environment = sessions[sid].environment
    /\ sessions'[sid].currentLocation = sessions[sid].currentLocation

\* A step of one request after the other request has ended the game
GameOverStopsTheOther ==
    \A sid \in DOMAIN sessions :
        (BothInFlight(sid) /\ sessions[sid].isGameOver) =>
            /\ (req[sid].ctx.gameOverTriggered /\ req'[sid].other # req[sid].other)
                    => WorldUnchanged(sid)
            /\ (req[sid].other[1].ctx.gameOverTriggered /\ req'[sid].ctx # req[sid].ctx)
                    => WorldUnchanged(sid)

TurnCountsBoth ==
    \A sid \in DOMAIN sessions :
        BothInFlight(sid) => sessions[sid].turn = req[sid].pre[1].turn + 2

\* C32: while two /action requests of a session are both suspended at model
\* calls, once isGameOver is true no tool call changes stats, inventory,
\* tags or environment, and the turn counter is 2 higher than before both.
OverlapIsSafe == []TurnCountsBoth /\ [][GameOverStopsTheOther]_vars

\* The successful trigger_game_over entries of a log
Endings(log) ==
    SelectSeq(log, LAMBDA e : e.toolName = "trigger_game_over" /\ e.result.success)

\* In a turn every call emitted so far is logged, those after an ending
\* included, and the ending recorded is that of the last successful
\* trigger_game_over.
LastEndingStands ==
    \A sid \in DOMAIN sessions :
        LET endings == Endings(Log(sid))
        IN  /\ Len(Log(sid)) = Len(req[sid].contents)
            /\ req[sid].ctx.gameOverTriggered <=> endings # <<>>
            /\ endings # <<>> =>
                    /\ sessions[sid].isGameOver
                    /\ req[sid].ctx.gameOverDescription =
                            <<Trim(endings[Len(endings)].args.deathDescription)>>

\* A round of the tool loop after the game was ended in the turn: every call
\* of the response is logged, and its effect is there (a tag added, an item
\* added, sanity lowered).
LoopGoesOnAfterGameOver ==
    \A sid \in DOMAIN sessions :
        (req[sid].pc = "model" /\ req[sid].ctx.gameOverTriggered
         /\ req'[sid].iterations = req[sid].iterations + 1) =>
            LET emitted == SubSeq(req'[sid].contents, Len(req[sid].contents) + 1,
                                  Len(req'[sid].contents))
                logged == SubSeq(req'[sid].ctx.toolCalls, Len(Log(sid)) + 1,
                                 Len(req'[sid].ctx.toolCalls))
            IN  /\ emitted # <<>>
                /\ Len(logged) = Len(emitted)
                /\ \A i \in 1..Len(emitted) : logged[i].toolName = emitted[i].name
                /\ (\E i \in 1..Len(emitted) : emitted[i] = TagCall)
                        => Includes(sessions'[sid].tags, "bleeding")
                /\ (\E i \in 1..Len(emitted) : emitted[i] = AddKeyCall)
                        => Len(sessions'[sid].inventory) > Len(sessions[sid].inventory)
                /\ (\E i \in 1..Len(emitted) : emitted[i].name = "update_player_stats")
                        => sessions'[sid].stats.sanity < sessions[sid].stats.sanity
                /\ sessions'[sid].isGameOver

\* C33: in a turn the tool loop goes on after a successful
\* trigger_game_over: calls of the same response and of later responses are
\* executed and logged, and a later successful trigger_game_over replaces
\* the recorded ending description.
LoopIgnoresGameOver == []LastEndingStands /\ [][LoopGoesOnAfterGameOver]_vars

\* The game was ended, a tag was added in a later response, and the game
\* was ended again with another description, which is the one recorded.
LoopIgnoresGameOverWitness ==
    \E sid \in DOMAIN sessions :
        /\ Len(Log(sid)) = 3
        /\ req[sid].iterations >= 2
        /\ Log(sid)[1].toolName = "trigger_game_over" /\ Log(sid)[1].result.success
        /\ Log(sid)[1].args.deathDescription = " AM wins "
        /\ Log(sid)[2].toolName = "add_tag" /\ Log(sid)[2].result.success
        /\ Log(sid)[3].toolName = "trigger_game_over" /\ Log(sid)[3].result.success
        /\ req[sid].ctx.gameOverDescription = <<"The void">>
        /\ Includes(sessions[sid].tags, "bleeding")

IsPrefix(short, long) == Len(short) <= Len(long) /\ SubSeq(long, 1, Len(short)) = short

EnvironmentConsistent ==
    \A sid \in DOMAIN sessions :
        LET st == sessions[sid]
        IN  /\ st.environment # <<>> <=> st.currentLocation # <<>>
            /\ st.environment # <<>> =>
                    /\ st.environment[1].location = st.currentLocation[1]
                    /\ st.environment[1].materials # <<>>
                    /\ Includes(st.locationHistory, st.currentLocation[1])
            /\ NoDuplicates(st.locationHistory)

\* locationHistory only grows, by the current location put last when it is
\* seen for the first time.
LocationHistoryGrows ==
    \A sid \in DOMAIN sessions :
        LET before == sessions[sid].locationHistory
            after == sessions'[sid].locationHistory
        IN  /\ IsPrefix(before, after)
            /\ after # before =>
                    /\ after = Append(before, sessions'[sid].currentLocation[1])
                    /\ ~Includes(before, sessions'[sid].currentLocation[1])
            /\ (sessions'[sid].currentLocation # sessions[sid].currentLocation
                /\ ~Includes(before, sessions'[sid].currentLocation[1]))
                    => after # before

\* C34: in every reachable state environment is defined exactly when
\* currentLocation is, environment.location is currentLocation,
\* environment.materials is not empty, currentLocation is in locationHistory,
\* and locationHistory has no duplicates, only grows and lists the locations
\* in the order first seen.
EnvironmentInvariant == []EnvironmentConsistent /\ [][LocationHistoryGrows]_vars

\* The player went from the capsule to the corridor and back: the current
\* location is the first of the two in the history.
EnvironmentInvariantWitness ==
    \E sid \in DOMAIN sessions :
        /\ sessions[sid].locationHistory = <<"capsule", "corridor">>
        /\ sessions[sid].currentLocation = <<"capsule">>
        /\ sessions[sid].environment[1].materials = <<"flesh">>
        /\ Len(Log(sid)) = 3

\* The tool loop ends with a response without calls: the Google AI path
\* asks again exactly when its text is no valid structured output; the
\* Vertex AI path never does.
ReaskIffInvalid ==
    \A sid \in DOMAIN sessions : \A text \in FinalTexts :
        ModelReplies(sid, ModelResponse(<<>>, text)) =>
            /\ req'[sid].pc = "final" <=>
                    (backend = "google" /\ text \in {NoText, JsonTwoText, TwoItemsText})
            /\ req'[sid].pc # "final" => (req'[sid].pc = "idle" /\ lastResp'.status = 200)

\* The answer to the re-ask ends the turn: no further model call, no tool
\* executed for it, and an answer that is still invalid goes through the
\* text patterns and the default choices.
ReaskEndsTheTurn ==
    \A sid \in DOMAIN sessions :
        (req[sid].pc = "final" /\ req'[sid] # req[sid]) =>
            /\ req'[sid].pc = "idle"
            /\ lastResp'.status = 200
            /\ lastResp'.body.toolCalls = Log(sid)
            /\ sessions'[sid].stats = sessions[sid].stats
            /\ nCalls' = nCalls
            /\ \A response \in FinalResponses : FinalReplies(sid, response) =>
                    lastResp'.body.choices =
                        CASE response.text = JsonText -> <<"A", "B", "C">>
                          [] response.text = TwoItemsText -> <<"A", "B", defaults[3]>>
                          [] OTHER -> defaults

\* C35: after the tool loop the Google AI path asks the model once more for
\* strict JSON exactly when the loop's last text is no valid structured
\* output; no tool is executed for the answer to the re-ask, and when that
\* answer is invalid too the turn ends with the text patterns and the
\* default choices, without another call.
OneReaskAtMost == [][ReaskIffInvalid /\ ReaskEndsTheTurn]_vars

\* A turn on the Google AI path was answered after a re-ask whose answer
\* was empty and carried a call: default choices, the one tool call of the
\* loop in the log, hp untouched.
OneReaskAtMostWitness ==
    /\ backend = "google"
    /\ ActionAnswered(200)
    /\ lastResp.body.choices = defaults
    /\ lastResp.body.story_text = Str("AM molchit...")
    /\ Len(lastResp.body.toolCalls) = 1
    /\ lastResp.body.state[1].stats.hp = 100

----------------------------------------------------------------------------
(* The key pool under any calls of its three functions, as time passes.    *)

\* Values of GEMINI_API_KEYS
KeyEnvironments == DOMAIN resolveApiKeys

\* The delay the server names in a rate-limit error ("retry in 5s"), if any
ServerDelays == {<<>>, <<5000>>}

\* Milliseconds between two calls
Elapses == {5000, 35000}

InitKeyPool ==
    /\ backend = "google"
    /\ \E env \in KeyEnvironments : apiKeys = resolveApiKeys[env]
    /\ pool = <<>>
    /\ cursor = 0
    /\ now = 0
    /\ retry = NoRetry
    /\ InitCache
    /\ sessions = <<>>
    /\ store = {}
    /\ nextSession = 0
    /\ nextItem = 0
    /\ req = <<>>
    /\ nReq = 0
    /\ nCalls = 0
    /\ lastReq = Request("none", NoSession, "")
    /\ lastResp = NoResponse

\* The callers pass the keys getNextKey gave them
KeysInUse == {apiKeys[i] : i \in 1..Len(apiKeys)}

NextKeyPool ==
    \/ GetNextKey
    \/ \E key \in KeysInUse, cooldownMs \in ServerDelays : MarkKeyRateLimited(key, cooldownMs)
    \/ \E key \in KeysInUse : MarkKeyDead(key)
    \/ \E ms \in Elapses : Elapse(ms)

SpecKeyPool == InitKeyPool /\ [][NextKeyPool]_vars

\* The entries the next call of a pool function works on
Entries == initPool(pool, apiKeys)

\* The key was passed to markKeyDead
MarkedDead(p, key) == \E i \in 1..Len(p) : p[i].key = key /\ p[i].dead

\* The end of the cooldown the last markKeyRateLimited gave the key, 0 if none
CooldownEnd(p, key) == p[Find(p, key)[1]].cooldownUntil

LiveKeys == {key \in KeysInUse : ~MarkedDead(Entries, key)}

ReadyKeys == {key \in LiveKeys : CooldownEnd(Entries, key) <= now}

NextKey == getNextKey(Entries, cursor, now)

KeyPoolReturnsLiveKey ==
    /\ NextKey.threw <=> LiveKeys = {}
    /\ ~NextKey.threw =>
        /\ NextKey.key \in LiveKeys
        /\ ReadyKeys # {} => NextKey.key \in ReadyKeys
        /\ ReadyKeys = {} =>
                \A key \in LiveKeys :
                    CooldownEnd(Entries, NextKey.key) <= CooldownEnd(Entries, key)

DeadStaysDead ==
    \A key \in KeysInUse : MarkedDead(Entries, key) => MarkedDead(initPool(pool', apiKeys'), key)

\* C36: getNextKey never returns a key that was marked dead: after any calls
\* of getNextKey, markKeyRateLimited and markKeyDead it returns a live key
\* that is off cooldown when there is one, else the live key whose cooldown
\* ends first, and it throws when every key is dead; a key marked dead stays
\* dead.
KeyPoolHonoursMarks == []KeyPoolReturnsLiveKey /\ [][DeadStaysDead]_vars

----------------------------------------------------------------------------
(* withRetry around a function that resolves or rejects in any way.        *)

RetryErrors ==
    ModelErrors \cup {ModelError(429, "Quota exceeded. Please retry in 5s."),
                      ModelError(0, "got status: 429 Too Many Requests, retry in 90s")}

RetryOpts == {[maxRetries |-> most, apiKey |-> apiKey] :
                most \in {0, 1, 2}, apiKey \in {<<>>, <<"key-a">>}}

\* Values fn resolves with
FnValues == {"response"}

InitWithRetry ==
    /\ InitKeyPool
    /\ apiKeys = resolveApiKeys["key-a,,key-b"]

NextWithRetry ==
    \/ \E opts \in RetryOpts : WithRetry(opts.maxRetries, opts.apiKey)
    \/ \E value \in FnValues : FnResolves(value)
    \/ \E error \in RetryErrors : FnRejects(error)
    \/ SleepEnds
    \/ \E ms \in Elapses : Elapse(ms)

SpecWithRetry == InitWithRetry /\ [][NextWithRetry]_vars

Running == retry.pc \in {"calling", "sleeping"}

\* Calls of fn made by the invocation, against the attempts the loop allows
RetryCounts ==
    retry.pc # "idle" =>
        /\ retry.calls = retry.attempt + 1
        /\ retry.calls <= retry.maxRetries + 1

\* What is left to do: two steps for every attempt left, one for the call
\* that is out
Rank(r) ==
    CASE r.pc = "calling"  -> 2 * (r.maxRetries - r.attempt) + 1
      [] r.pc = "sleeping" -> 2 * (r.maxRetries - r.attempt)
      [] OTHER             -> 0

RetryProgresses == Running /\ retry' # retry => Rank(retry') < Rank(retry)

RetryEnds ==
    /\ \A value \in FnValues : FnResolves(value) =>
            retry' = [retry EXCEPT !.pc = "returned", !.result = <<value>>]
    /\ \A error \in RetryErrors : FnRejects(error) =>
            IF ~isRateLimitError(error) \/ retry.attempt = retry.maxRetries
            THEN /\ retry' = [retry EXCEPT !.pc = "threw", !.error = <<error>>]
                 /\ pool' = pool
            ELSE /\ retry'.pc = "sleeping"
                 /\ retry'.calls = retry.calls
                 /\ retry'.wake > now
                 /\ retry.apiKey # <<>> =>
                        CooldownEnd(pool', retry.apiKey[1]) =
                            now + (IF error.message \in DOMAIN RetryDelays
                                   THEN RetryDelays[error.message] ELSE 35000)
    /\ retry.pc = "sleeping" /\ retry'.pc = "calling" => now >= retry.wake
    /\ retry.pc \in {"returned", "threw"} /\ retry'.pc = retry.pc => retry' = retry

\* C37: withRetry calls the function at most maxRetries + 1 times and every
\* step of it brings it nearer its end; it returns the first value the
\* function resolves with, rethrows at once an error that is no rate limit,
\* after a rate-limit error with attempts left marks the key as cooling and
\* sleeps before the next call, and rethrows the rate-limit error of the last
\* attempt.
WithRetryIsBounded == []RetryCounts /\ [][RetryProgresses /\ RetryEnds]_vars

\* The third call of an invocation with maxRetries 2 was rejected with a
\* rate-limit error and withRetry rethrew it; the key is cooling.
WithRetryIsBoundedWitness ==
    /\ retry.pc = "threw"
    /\ retry.maxRetries = 2
    /\ retry.calls = 3
    /\ isRateLimitError(retry.error[1])
    /\ retry.apiKey = <<"key-a">>
    /\ CooldownEnd(pool, "key-a") > now

----------------------------------------------------------------------------
(* The context cache under concurrent model calls.                         *)

\* What ai.caches.create settles with
CreateOutcomes ==
    {[ok |-> TRUE, name |-> TRUE, expireTime |-> <<>>],
     [ok |-> TRUE, name |-> TRUE, expireTime |-> <<40000>>],
     [ok |-> TRUE, name |-> TRUE, expireTime |-> <<10000>>],
     [ok |-> TRUE, name |-> FALSE, expireTime |-> <<>>],
     [ok |-> FALSE, name |-> FALSE, expireTime |-> <<>>]}

\* The keys the calls are made with
CallKeys == {"", "key-a", "key-b"}

InitCaching ==
    /\ InitKeyPool
    /\ apiKeys = resolveApiKeys["key-a,,key-b"]

NextCaching ==
    \/ \E c \in CallerIds, apiKey \in CallKeys : GetCachedContent(c, apiKey)
    \/ \E promise \in DOMAIN creations, cached \in CreateOutcomes : CreateSettles(promise, cached)
    \/ \E c \in CallerIds : Resumes(c)
    \/ Elapse(35000)

SpecCaching == InitCaching /\ [][NextCaching]_vars

\* The creation calls that are out for the key
Pending(apiKey) ==
    {p \in DOMAIN creations : creations[p].key = apiKey /\ creations[p].state = "pending"}

\* The creations of the key that ended without a named cache
Failed(apiKey) ==
    {p \in DOMAIN creations :
        /\ creations[p].key = apiKey
        /\ creations[p].state = "settled"
        /\ creations[p].entry = <<>>}

\* The key holds an entry with no expiry, or one more than the margin ahead
HoldsValidEntry(apiKey) ==
    /\ orchestratorCacheByKey[apiKey] # <<>>
    /\ \/ orchestratorCacheByKey[apiKey][1].expiresAt = <<>>
       \/ orchestratorCacheByKey[apiKey][1].expiresAt[1] > now + 15000

SingleFlight ==
    \A apiKey \in ApiKeyNames :
        /\ Cardinality(Pending(apiKey)) <= 1
        /\ Failed(apiKey) # {} => apiKey \in cacheDisabledForKey
        /\ Cardinality(Failed(apiKey)) <= 1

\* A caller that started a new creation
Starts(c) == callers'[c].pc = "creating" /\ callers'[c] # callers[c]

CachingSteps ==
    \A c \in CallerIds :
        /\ \A apiKey \in ApiKeyNames : GetCachedContent(c, apiKey) =>
            /\ Starts(c) <=> Len(creations') = Len(creations) + 1
            /\ Pending(apiKey) # {} =>
                    /\ ~Starts(c)
                    /\ apiKey \in cacheDisabledForKey \/ HoldsValidEntry(apiKey)
                        \/ (callers'[c].pc = "waiting" /\ callers'[c].promise \in Pending(apiKey))
            /\ HoldsValidEntry(apiKey) /\ apiKey \notin cacheDisabledForKey =>
                    /\ creations' = creations
                    /\ callers'[c].pc = "done"
                    /\ callers'[c].config[1].cachedContent =
                            <<orchestratorCacheByKey[apiKey][1].name>>
            /\ apiKey \in cacheDisabledForKey =>
                    /\ creations' = creations
                    /\ callers'[c].pc = "done"
                    /\ callers'[c].config[1] =
                            [cachedContent |-> <<>>,
                             systemInstruction |-> <<"ORCHESTRATOR_SYSTEM_PROMPT">>]
        /\ Resumes(c) =>
            LET made == creations[callers[c].promise]
            IN  /\ callers'[c].pc = "done"
                /\ made.key = callers[c].key
                /\ callers'[c].config[1] =
                        IF made.entry = <<>>
                        THEN [cachedContent |-> <<>>,
                              systemInstruction |-> <<"ORCHESTRATOR_SYSTEM_PROMPT">>]
                        ELSE [cachedContent |-> <<callers[c].promise>>,
                              systemInstruction |-> <<>>]

DisabledStays == cacheDisabledForKey \subseteq cacheDisabledForKey'

\* C38: under any interleaving of the model calls of concurrent turns at
\* most one cache creation is out for an API key; a call made meanwhile
\* waits for that creation and gets its result, as does the call that
\* started it; a valid entry is used without a new creation; after a failed
\* creation the key stays disabled, no further creation is started for it,
\* and the calls go on with the plain system instruction.
CacheIsSingleFlight == []SingleFlight /\ [][CachingSteps /\ DisabledStays]_vars

\* One creation was made for key-a while two calls asked for it: the caller
\* that started it has the cache's name and has cleared the map, the caller
\* that found it under way is still to be resumed with the same promise.
CacheIsSingleFlightWitness ==
    /\ Len(creations) = 1
    /\ creations[1] = [key |-> "key-a", state |-> "settled",
                       entry |-> <<CacheEntry(1, <<>>)>>]
    /\ callers[1].pc = "done" /\ callers[1].key = "key-a"
    /\ callers[1].config[1].cachedContent = <<1>>
    /\ callers[2] = [pc |-> "waiting", key |-> "key-a", promise |-> 1, config |-> <<>>]
    /\ orchestratorCacheInFlight = [key \in ApiKeyNames |-> <<>>]

====
